---------------------------- MODULE Spec2Model ----------------------------
(***************************************************************************)
(* enum-spanner-rs: enumeration of all the mappings (assignments of spans  *)
(* to named groups) of a regular expression over a text.                   *)
(*                                                                         *)
(* The model follows the pipeline of the crate:                            *)
(*   regex::compile      reformat -> parse -> Hir -> LocalLang -> Automaton *)
(*   IndexedDag::compile Jump::new, then one init_next_level (and the      *)
(*                       clean_level calls) per character of the text      *)
(*   IndexedDag::iter    IndexedDagIterator::next, NextLevelIterator::next  *)
(*   NaiveEnum           the brute force enumerator used as test oracle    *)
(* Characters are code points (integers); a text is a sequence of code     *)
(* points; a regex is a sequence of one-character strings (all ASCII, so   *)
(* bytes and characters coincide in it).  Rust's 0-based vectors are kept  *)
(* 0-based in every index the program stores (vertex indices, matrix       *)
(* cells, term ids); TLA+ sequences holding them are 1-based.              *)
(***************************************************************************)
EXTENDS Integers, Sequences, FiniteSets, TLC

\* Longest text (in code points) given to the engine.
MaxTextLen == 3
\* Largest count m, n used in the repetition patterns X{m}, X{m,}, X{m,n}.
MaxRep == 2
\* Longest event list given to Mapping::from_markers on its own.
MaxEvents == 4
\* Largest vertex given to a LevelSet on its own.
MaxVertex == 2

\* Largest code point (char::MAX).
MaxCodePoint == 16 * 65536 + 65535

---------------------------------------------------------------------------
(* Generic helpers on sequences and sets.                                  *)

Range(s) == { s[i] : i \in DOMAIN s }

Contains(s, x) == \E i \in DOMAIN s : s[i] = x

Max(S) == CHOOSE x \in S : \A y \in S : y <= x

Min(S) == CHOOSE x \in S : \A y \in S : x <= y

\* The elements of a finite set of integers in increasing order.
RECURSIVE SortedSeq(_)
SortedSeq(S) ==
    IF S = {} THEN << >>
    ELSE LET m == Min(S) IN << m >> \o SortedSeq(S \ {m})

\* All orders in which the elements of a finite set can be listed.
RECURSIVE Perms(_)
Perms(S) ==
    IF S = {} THEN { << >> }
    ELSE UNION { { << x >> \o p : p \in Perms(S \ {x}) } : x \in S }

\* All sequences over S of length at most n.
RECURSIVE SeqsUpTo(_, _)
SeqsUpTo(S, n) ==
    IF n = 0 THEN { << >> }
    ELSE LET shorter == SeqsUpTo(S, n - 1)
         IN  shorter \cup { Append(t, x) : t \in shorter, x \in S }

RECURSIVE Repeat(_, _)
Repeat(s, k) == IF k = 0 THEN << >> ELSE s \o Repeat(s, k - 1)

\* A map (HashMap) is a function whose DOMAIN is its key set.
EmptyMap == << >>

Put(m, k, v) == [ x \in (DOMAIN m) \cup {k} |-> IF x = k THEN v ELSE m[x] ]

Remove(m, k) == [ x \in (DOMAIN m) \ {k} |-> m[x] ]

---------------------------------------------------------------------------
(* Characters.  The regex strings of the model are ASCII; CodePoint gives  *)
(* the code point of each character they (or the texts) may hold.          *)

CodePoint ==
    [ c \in {"a", "b", "@", ".", "\\", "$", "^", "|", "(", ")", "*", "+",
             "?", "{", "}", "[", "]", ",", "<", ">", "P", "s", "w", "n",
             "x", "y", "m", "t", "c", "h", "0", "1", "2", "3"} |->
        CASE c = "a" -> 97  [] c = "b" -> 98  [] c = "@" -> 64
          [] c = "." -> 46  [] c = "\\" -> 92 [] c = "$" -> 36
          [] c = "^" -> 94  [] c = "|" -> 124 [] c = "(" -> 40
          [] c = ")" -> 41  [] c = "*" -> 42  [] c = "+" -> 43
          [] c = "?" -> 63  [] c = "{" -> 123 [] c = "}" -> 125
          [] c = "[" -> 91  [] c = "]" -> 93  [] c = "," -> 44
          [] c = "<" -> 60  [] c = ">" -> 62  [] c = "P" -> 80
          [] c = "s" -> 115 [] c = "w" -> 119 [] c = "n" -> 110
          [] c = "x" -> 120 [] c = "y" -> 121 [] c = "m" -> 109
          [] c = "t" -> 116 [] c = "c" -> 99  [] c = "h" -> 104
          [] c = "0" -> 48  [] c = "1" -> 49  [] c = "2" -> 50
          [] c = "3" -> 51 ]

Digit == [ c \in {"0", "1", "2", "3"} |->
             CASE c = "0" -> 0 [] c = "1" -> 1 [] c = "2" -> 2 [] c = "3" -> 3 ]

\* Number of bytes of the UTF-8 encoding of a code point (char::len_utf8).
LenUtf8(c) ==
    IF c < 128 THEN 1 ELSE IF c < 2048 THEN 2 ELSE IF c < 65536 THEN 3 ELSE 4

---------------------------------------------------------------------------
(* The syntax tree returned by the regex-syntax parser (hir::Hir), for the *)
(* part of the syntax the model's patterns use.                            *)

LibEmpty == [ kind |-> "Empty" ]
LibLiteral(c) == [ kind |-> "Literal", c |-> c ]
LibClass(ranges) == [ kind |-> "Class", ranges |-> ranges ]
LibAnchor == [ kind |-> "Anchor" ]
LibRepetition(rk, m, n, hir) ==
    [ kind |-> "Repetition", rep |-> rk, m |-> m, n |-> n, hir |-> hir ]
LibGroup(gk, name, hir) ==
    [ kind |-> "Group", gk |-> gk, name |-> name, hir |-> hir ]
LibConcat(subs) == [ kind |-> "Concat", subs |-> subs ]
LibAlternation(subs) == [ kind |-> "Alternation", subs |-> subs ]

\* `.`: every code point but the line feed.
ClassDot == << << 0, 9 >>, << 11, MaxCodePoint >> >>

\* `\s`: the White_Space code points.
ClassSpace ==
    << << 9, 13 >>, << 32, 32 >>, << 133, 133 >>, << 160, 160 >>,
       << 5760, 5760 >>, << 8192, 8202 >>, << 8232, 8233 >>,
       << 8239, 8239 >>, << 8287, 8287 >>, << 12288, 12288 >> >>

\* `\w` restricted to the ranges that matter for the texts of the model:
\* digits, letters, underscore and the Latin-1 letters.
ClassWord ==
    << << 48, 57 >>, << 65, 90 >>, << 95, 95 >>, << 97, 122 >>,
       << 170, 170 >>, << 181, 181 >>, << 186, 186 >>, << 192, 214 >>,
       << 216, 246 >>, << 248, 705 >> >>

\* The class holding exactly the code points of a finite set.
RECURSIVE RangesOfSorted(_, _)
RangesOfSorted(s, acc) ==
    IF s = << >> THEN acc
    ELSE IF acc # << >> /\ acc[Len(acc)][2] + 1 = Head(s)
         THEN RangesOfSorted(Tail(s),
                  [ acc EXCEPT ![Len(acc)] = << acc[Len(acc)][1], Head(s) >> ])
         ELSE RangesOfSorted(Tail(s), Append(acc, << Head(s), Head(s) >>))

ClassOfSet(S) == RangesOfSorted(SortedSeq(S), << >>)

\* The complement of a class given as sorted disjoint ranges (`[^...]`).
RECURSIVE ClassNegate(_, _)
ClassNegate(ranges, from) ==
    IF ranges = << >>
    THEN IF from <= MaxCodePoint THEN << << from, MaxCodePoint >> >> ELSE << >>
    ELSE LET r == Head(ranges)
             rest == ClassNegate(Tail(ranges), r[2] + 1)
         IN  IF from < r[1] THEN << << from, r[1] - 1 >> >> \o rest ELSE rest

---------------------------------------------------------------------------
(* regex_syntax::Parser::parse, for the syntax used by the patterns of the *)
(* model: literals, `.`, `\s`, `\w`, escapes, `[...]`, `[^...]`, groups,   *)
(* named groups, `|`, `*`, `+`, `?`, `{m}`, `{m,}`, `{m,n}`, `^`, `$`.     *)
(* A parse result is [ok, hir, pos]; pos is the next index to read.        *)

ParseErr == [ ok |-> FALSE, hir |-> LibEmpty, pos |-> 0 ]

ParseOk(h, p) == [ ok |-> TRUE, hir |-> h, pos |-> p ]

At(s, i) == IF i >= 1 /\ i <= Len(s) THEN s[i] ELSE "eof"

MetaChars == {".", "\\", "$", "^", "|", "(", ")", "*", "+", "?", "{", "}", "[", "]"}

\* Index of the first occurrence of c in s from index i on, 0 if none.
RECURSIVE IndexFrom(_, _, _)
IndexFrom(s, i, c) ==
    IF i > Len(s) THEN 0 ELSE IF s[i] = c THEN i ELSE IndexFrom(s, i + 1, c)

\* A decimal number at index i: [ok, val, pos].
RECURSIVE ParseNumRest(_, _, _)
ParseNumRest(s, i, val) ==
    IF At(s, i) \in DOMAIN Digit
    THEN ParseNumRest(s, i + 1, 10 * val + Digit[At(s, i)])
    ELSE [ ok |-> TRUE, val |-> val, pos |-> i ]

ParseNum(s, i) ==
    IF At(s, i) \in DOMAIN Digit THEN ParseNumRest(s, i, 0)
    ELSE [ ok |-> FALSE, val |-> 0, pos |-> i ]

MkConcat(acc) ==
    IF Len(acc) = 0 THEN LibEmpty
    ELSE IF Len(acc) = 1 THEN acc[1] ELSE LibConcat(acc)

MkAlternation(acc) == IF Len(acc) = 1 THEN acc[1] ELSE LibAlternation(acc)

\* A greedy or lazy repetition operator: the `?` of laziness is skipped.
SkipLazy(s, i) == IF At(s, i) = "?" THEN i + 1 ELSE i

ParseEscape(s, i) ==
    LET d == At(s, i + 1)
    IN  CASE d = "s" -> ParseOk(LibClass(ClassSpace), i + 2)
          [] d = "w" -> ParseOk(LibClass(ClassWord), i + 2)
          [] d = "n" -> ParseOk(LibLiteral(10), i + 2)
          [] d = "t" -> ParseOk(LibLiteral(9), i + 2)
          [] d \in MetaChars -> ParseOk(LibLiteral(CodePoint[d]), i + 2)
          [] OTHER -> ParseErr

ParseClass(s, i) ==
    LET neg == At(s, i + 1) = "^"
        from == IF neg THEN i + 2 ELSE i + 1
        close == IndexFrom(s, from, "]")
    IN  IF close = 0 \/ close = from THEN ParseErr
        ELSE LET ranges == ClassOfSet({ CodePoint[s[k]] : k \in from .. (close - 1) })
             IN  ParseOk(LibClass(IF neg THEN ClassNegate(ranges, 0) ELSE ranges),
                         close + 1)

RECURSIVE ParseAlternation(_, _)
RECURSIVE ParseAltRest(_, _, _)
RECURSIVE ParseConcat(_, _, _)
RECURSIVE ParsePostfix(_, _, _)
RECURSIVE ParseAtom(_, _)

ParseAtom(s, i) ==
    LET c == At(s, i)
    IN  CASE c = "(" ->
               IF At(s, i + 1) = "?"
               THEN IF At(s, i + 2) = "P" /\ At(s, i + 3) = "<"
                    THEN LET e == IndexFrom(s, i + 4, ">")
                             inner == ParseAlternation(s, e + 1)
                         IN  IF e = 0 \/ e = i + 4 THEN ParseErr
                             ELSE IF inner.ok /\ At(s, inner.pos) = ")"
                             THEN ParseOk(LibGroup("CaptureName",
                                                   SubSeq(s, i + 4, e - 1),
                                                   inner.hir),
                                          inner.pos + 1)
                             ELSE ParseErr
                    ELSE ParseErr
               ELSE LET inner == ParseAlternation(s, i + 1)
                    IN  IF inner.ok /\ At(s, inner.pos) = ")"
                        THEN ParseOk(LibGroup("CaptureIndex", << >>, inner.hir),
                                     inner.pos + 1)
                        ELSE ParseErr
          [] c = "." -> ParseOk(LibClass(ClassDot), i + 1)
          [] c = "\\" -> ParseEscape(s, i)
          [] c = "[" -> ParseClass(s, i)
          [] c \in {"^", "$"} -> ParseOk(LibAnchor, i + 1)
          [] c \in {"eof", ")", "|", "*", "+", "?", "{"} -> ParseErr
          [] OTHER -> ParseOk(LibLiteral(CodePoint[c]), i + 1)

ParsePostfix(s, i, h) ==
    LET c == At(s, i)
    IN  CASE c = "*" ->
               ParsePostfix(s, SkipLazy(s, i + 1), LibRepetition("ZeroOrMore", 0, 0, h))
          [] c = "+" ->
               ParsePostfix(s, SkipLazy(s, i + 1), LibRepetition("OneOrMore", 0, 0, h))
          [] c = "?" ->
               ParsePostfix(s, SkipLazy(s, i + 1), LibRepetition("ZeroOrOne", 0, 0, h))
          [] c = "{" ->
               LET m == ParseNum(s, i + 1)
                   n == ParseNum(s, m.pos + 1)
               IN  IF ~m.ok THEN ParseErr
                   ELSE IF At(s, m.pos) = "}"
                   THEN ParsePostfix(s, SkipLazy(s, m.pos + 1),
                                     LibRepetition("Exactly", m.val, m.val, h))
                   ELSE IF At(s, m.pos) # "," THEN ParseErr
                   ELSE IF At(s, m.pos + 1) = "}"
                   THEN ParsePostfix(s, SkipLazy(s, m.pos + 2),
                                     LibRepetition("AtLeast", m.val, 0, h))
                   ELSE IF n.ok /\ At(s, n.pos) = "}" /\ m.val <= n.val
                   THEN ParsePostfix(s, SkipLazy(s, n.pos + 1),
                                     LibRepetition("Bounded", m.val, n.val, h))
                   ELSE ParseErr
          [] OTHER -> ParseOk(h, i)

ParseConcat(s, i, acc) ==
    IF At(s, i) \in {"eof", "|", ")"} THEN ParseOk(MkConcat(acc), i)
    ELSE LET a == ParseAtom(s, i)
             p == ParsePostfix(s, a.pos, a.hir)
         IN  IF ~a.ok THEN ParseErr
             ELSE IF ~p.ok THEN ParseErr
             ELSE ParseConcat(s, p.pos, Append(acc, p.hir))

ParseAltRest(s, i, acc) ==
    IF At(s, i) = "|"
    THEN LET next == ParseConcat(s, i + 1, << >>)
         IN  IF ~next.ok THEN ParseErr
             ELSE ParseAltRest(s, next.pos, Append(acc, next.hir))
    ELSE ParseOk(MkAlternation(acc), i)

ParseAlternation(s, i) ==
    LET first == ParseConcat(s, i, << >>)
    IN  IF ~first.ok THEN ParseErr ELSE ParseAltRest(s, first.pos, << first.hir >>)

\* The parse of a whole pattern: everything must be consumed.
Parse(s) ==
    LET r == ParseAlternation(s, 1)
    IN  IF r.ok /\ r.pos = Len(s) + 1 THEN r ELSE ParseErr

---------------------------------------------------------------------------
(* regex::reformat: wrap the pattern in the group `match` and allow any    *)
(* prefix and suffix unless the pattern starts with ^ or ends with $.      *)

AnyStar == << "(", ".", "|", "\\", "s", ")", "*" >>

MatchOpen == << "(", "?", "P", "<", "m", "a", "t", "c", "h", ">" >>

\* reformat, were no prefix and no suffix ever allowed.
ReformatAnchored(regex) ==
    LET anchor_begin == Len(regex) > 0 /\ regex[1] = "^"
        anchor_end == Len(regex) > 0 /\ regex[Len(regex)] = "$"
        r1 == IF anchor_begin THEN Tail(regex) ELSE regex
        r2 == IF anchor_end THEN SubSeq(r1, 1, Len(r1) - 1) ELSE r1
    IN  MatchOpen \o r2 \o << ")" >>

\* reformat, were the pattern wrapped in a group without a name.
ReformatNoMatch(regex) ==
    LET anchor_begin == Len(regex) > 0 /\ regex[1] = "^"
        anchor_end == Len(regex) > 0 /\ regex[Len(regex)] = "$"
        r1 == IF anchor_begin THEN Tail(regex) ELSE regex
        r2 == IF anchor_end THEN SubSeq(r1, 1, Len(r1) - 1) ELSE r1
        r3 == << "(" >> \o r2 \o << ")" >>
        r4 == IF ~anchor_begin THEN AnyStar \o r3 ELSE r3
    IN  IF ~anchor_end THEN r4 \o AnyStar ELSE r4

reformat(regex) ==
    LET anchor_begin == Len(regex) > 0 /\ regex[1] = "^"
        anchor_end == Len(regex) > 0 /\ regex[Len(regex)] = "$"
        r1 == IF anchor_begin THEN Tail(regex) ELSE regex
        r2 == IF anchor_end THEN SubSeq(r1, 1, Len(r1) - 1) ELSE r1
        r3 == MatchOpen \o r2 \o << ")" >>
        r4 == IF ~anchor_begin THEN AnyStar \o r3 ELSE r3
    IN  IF ~anchor_end THEN r4 \o AnyStar ELSE r4

---------------------------------------------------------------------------
(* regex::parse::Hir: the binary tree the automaton is built from.         *)

Variable(name, id) == [ id |-> id, name |-> name ]

MarkerOpen(var) == [ kind |-> "Open", var |-> var ]
MarkerClose(var) == [ kind |-> "Close", var |-> var ]

\* Markers are compared through their variable, and variables by id only
\* (impl PartialEq for Variable): the key of a marker in sets and maps.
MarkerKey(marker) == << marker.kind, marker.var.id >>

LabelAtom(atom) == [ kind |-> "Atom", atom |-> atom ]
LabelAssignation(marker) == [ kind |-> "Assignation", marker |-> marker ]

HirEmpty == [ kind |-> "Empty" ]
HirLabel(label) == [ kind |-> "Label", label |-> label ]
HirConcat(h1, h2) == [ kind |-> "Concat", h1 |-> h1, h2 |-> h2 ]
HirAlternation(h1, h2) == [ kind |-> "Alternation", h1 |-> h1, h2 |-> h2 ]
HirOption(h) == [ kind |-> "Option", h |-> h ]
HirClosure(h) == [ kind |-> "Closure", h |-> h ]

HirEpsilon == HirOption(HirEmpty)

\* The mandatory copies of Hir::repetition: `for i in 0..min`.
RECURSIVE RepetitionCopies(_, _, _, _, _)
RepetitionCopies(result, i, min, unbounded, hir) ==
    IF i >= min THEN result
    ELSE IF i = min - 1 /\ unbounded
         THEN RepetitionCopies(HirConcat(result, HirClosure(hir)), i + 1, min, unbounded, hir)
         ELSE RepetitionCopies(HirConcat(result, hir), i + 1, min, unbounded, hir)

\* The optional copies of Hir::repetition: `for _ in min..max`.
RECURSIVE RepetitionOptionals(_, _, _)
RepetitionOptionals(optionals, count, hir) ==
    IF count <= 0 THEN optionals
    ELSE RepetitionOptionals(HirOption(HirConcat(hir, optionals)), count - 1, hir)

\* Hir::repetition(hir, range), range given as its kind and its numbers.
HirRepetition(hir, rk, m, n) ==
    LET min == m
        unbounded == rk = "AtLeast"
        max == IF rk = "Exactly" THEN m ELSE n
        result == RepetitionCopies(HirEpsilon, 0, min, unbounded, hir)
    IN  IF unbounded THEN result
        ELSE HirConcat(result, RepetitionOptionals(HirEpsilon, max - min, hir))

\* Hir::from_lib_hir: [ok, n, hir], n the number of variables created;
\* ok is FALSE where the code panics ("Not implemented").
RECURSIVE from_lib_hir(_, _)
RECURSIVE FoldLibSubs(_, _, _, _, _)

FoldLibSubs(subs, i, nb_ext_vars, acc, isConcat) ==
    IF i > Len(subs) THEN acc
    ELSE LET add == from_lib_hir(subs[i], nb_ext_vars + acc.n)
         IN  IF ~add.ok THEN [ ok |-> FALSE, n |-> 0, hir |-> HirEmpty ]
             ELSE FoldLibSubs(subs, i + 1, nb_ext_vars,
                      [ ok |-> TRUE, n |-> acc.n + add.n,
                        hir |-> IF isConcat THEN HirConcat(acc.hir, add.hir)
                                ELSE HirAlternation(acc.hir, add.hir) ],
                      isConcat)

from_lib_hir(hir, nb_ext_vars) ==
    CASE hir.kind = "Empty" -> [ ok |-> TRUE, n |-> 0, hir |-> HirEpsilon ]
      [] hir.kind = "Literal" ->
           [ ok |-> TRUE, n |-> 0,
             hir |-> HirLabel(LabelAtom([ kind |-> "Literal", c |-> hir.c ])) ]
      [] hir.kind = "Class" ->
           [ ok |-> TRUE, n |-> 0,
             hir |-> HirLabel(LabelAtom([ kind |-> "Class", ranges |-> hir.ranges ])) ]
      [] hir.kind = "Repetition" ->
           LET sub == from_lib_hir(hir.hir, nb_ext_vars)
           IN  IF ~sub.ok THEN sub
               ELSE [ ok |-> TRUE, n |-> sub.n,
                      hir |-> CASE hir.rep = "ZeroOrOne" -> HirOption(sub.hir)
                                [] hir.rep = "ZeroOrMore" -> HirOption(HirClosure(sub.hir))
                                [] hir.rep = "OneOrMore" -> HirClosure(sub.hir)
                                [] OTHER -> HirRepetition(sub.hir, hir.rep, hir.m, hir.n) ]
      [] hir.kind = "Group" ->
           LET sub == from_lib_hir(hir.hir, nb_ext_vars)
               var == Variable(hir.name, nb_ext_vars + sub.n)
           IN  IF ~sub.ok THEN sub
               ELSE IF hir.gk # "CaptureName" THEN sub
               ELSE [ ok |-> TRUE, n |-> sub.n + 1,
                      hir |-> HirConcat(
                                  HirConcat(HirLabel(LabelAssignation(MarkerOpen(var))),
                                            sub.hir),
                                  HirLabel(LabelAssignation(MarkerClose(var)))) ]
      [] hir.kind = "Concat" ->
           FoldLibSubs(hir.subs, 1, nb_ext_vars,
                       [ ok |-> TRUE, n |-> 0, hir |-> HirEpsilon ], TRUE)
      [] hir.kind = "Alternation" ->
           FoldLibSubs(hir.subs, 1, nb_ext_vars,
                       [ ok |-> TRUE, n |-> 0, hir |-> HirEmpty ], FALSE)
      [] OTHER -> [ ok |-> FALSE, n |-> 0, hir |-> HirEmpty ]

\* Hir::from_regex, after the parser has answered: [ok, n, hir]; ok is FALSE
\* where the code panics ("Invalid regexp syntax", "Not implemented").
FromParsed(lib_hir) ==
    IF ~lib_hir.ok THEN [ ok |-> FALSE, n |-> 0, hir |-> HirEmpty ]
    ELSE from_lib_hir(lib_hir.hir, 0)

\* Hir::from_regex: [ok, n, hir]
from_regex(regex) == FromParsed(Parse(regex))

---------------------------------------------------------------------------
(* regex::glushkov::LocalLang: the local language (P, D, F, G) of a Hir.   *)
(* P, D and F are lists (LinkedList), kept in the order the code builds.   *)

GlushkovTerm(id, label) == [ id |-> id, label |-> label ]

LocalLang(nb_terms, p, d, f, g) ==
    [ nb_terms |-> nb_terms, p |-> p, d |-> d, f |-> f, g |-> g ]

\* LocalLang::empty
LangEmpty == LocalLang(0, << >>, << >>, << >>, FALSE)

\* LocalLang::label (with register_label): one term, of id id_offset.
LangLabel(label, id_offset) ==
    LET term == GlushkovTerm(1 + id_offset - 1, label)
    IN  LocalLang(1, << term >>, << term >>, << >>, FALSE)

\* The pairs (x, y), x in d and y in p, x outermost: `for x in d { for y in p`.
RECURSIVE PairsOf(_, _)
PairsOf(d, p) ==
    IF d = << >> THEN << >>
    ELSE [ j \in 1 .. Len(p) |-> << Head(d), p[j] >> ] \o PairsOf(Tail(d), p)

\* A concatenation that adds P2 and D1 whether or not the other language
\* accepts the empty word.
LangConcatenationAll(lang1, lang2) ==
    LocalLang(lang1.nb_terms + lang2.nb_terms,
              lang1.p \o lang2.p,
              lang2.d \o lang1.d,
              lang1.f \o lang2.f \o PairsOf(lang1.d, lang2.p),
              lang1.g /\ lang2.g)

\* LocalLang::concatenation
LangConcatenation(lang1, lang2) ==
    LocalLang(lang1.nb_terms + lang2.nb_terms,
              IF lang1.g THEN lang1.p \o lang2.p ELSE lang1.p,
              IF lang2.g THEN lang2.d \o lang1.d ELSE lang2.d,
              lang1.f \o lang2.f \o PairsOf(lang1.d, lang2.p),
              lang1.g /\ lang2.g)

\* LocalLang::alternation
LangAlternation(lang1, lang2) ==
    LocalLang(lang1.nb_terms + lang2.nb_terms,
              lang1.p \o lang2.p, lang1.d \o lang2.d, lang1.f \o lang2.f,
              lang1.g \/ lang2.g)

\* LocalLang::optional
LangOptional(lang) == [ lang EXCEPT !.g = TRUE ]

\* LocalLang::closure
LangClosure(lang) == [ lang EXCEPT !.f = lang.f \o PairsOf(lang.d, lang.p) ]

\* LocalLang::from_hir
RECURSIVE from_hir(_, _)
from_hir(hir, id_offset) ==
    CASE hir.kind = "Empty" -> LangEmpty
      [] hir.kind = "Label" -> LangLabel(hir.label, id_offset)
      [] hir.kind = "Concat" ->
           LET lang1 == from_hir(hir.h1, id_offset)
               lang2 == from_hir(hir.h2, id_offset + lang1.nb_terms)
           IN  LangConcatenation(lang1, lang2)
      [] hir.kind = "Alternation" ->
           LET lang1 == from_hir(hir.h1, id_offset)
               lang2 == from_hir(hir.h2, id_offset + lang1.nb_terms)
           IN  LangAlternation(lang1, lang2)
      [] hir.kind = "Option" -> LangOptional(from_hir(hir.h, id_offset))
      [] hir.kind = "Closure" -> LangClosure(from_hir(hir.h, id_offset))

---------------------------------------------------------------------------
(* automaton::Automaton.  A transition is <<source, label, target>>; the   *)
(* adjacency lists are functions over the states 0 .. nb_states - 1 giving *)
(* sequences, in the order of the transition list.                         *)

States(nb_states) == 0 .. (nb_states - 1)

\* Atom::is_match
is_match(atom, a) ==
    IF atom.kind = "Literal" THEN a = atom.c
    ELSE \E k \in DOMAIN atom.ranges : atom.ranges[k][1] <= a /\ a <= atom.ranges[k][2]

EmptyAdj(nb_states) == [ s \in States(nb_states) |-> << >> ]

\* Automaton::init_adj
init_adj(nb_states, transitions) ==
    [ s \in States(nb_states) |->
        LET sel == SelectSeq(transitions, LAMBDA t : t[1] = s)
        IN  [ k \in 1 .. Len(sel) |-> << sel[k][2], sel[k][3] >> ] ]

\* Automaton::init_assignations
init_assignations(nb_states, transitions) ==
    [ s \in States(nb_states) |->
        LET sel == SelectSeq(transitions,
                             LAMBDA t : t[1] = s /\ t[2].kind = "Assignation")
        IN  [ k \in 1 .. Len(sel) |-> << sel[k][2], sel[k][3] >> ] ]

\* Automaton::init_rev_assignations
init_rev_assignations(nb_states, transitions) ==
    [ s \in States(nb_states) |->
        LET sel == SelectSeq(transitions,
                             LAMBDA t : t[3] = s /\ t[2].kind = "Assignation")
        IN  [ k \in 1 .. Len(sel) |-> << sel[k][2], sel[k][1] >> ] ]

\* The inner loop of init_closure_for_assignations for one source popped
\* from the heap: [closure, heap, seen] after reading adj[source][i..].
RECURSIVE ClosureTargets(_, _, _)
ClosureTargets(targets, i, st) ==
    IF i > Len(targets) THEN st
    ELSE LET target == targets[i]
         IN  ClosureTargets(targets, i + 1,
                 [ closure |-> Append(st.closure, target),
                   heap |-> IF target \in st.seen THEN st.heap
                            ELSE Append(st.heap, target),
                   seen |-> st.seen \cup {target} ])

RECURSIVE ClosureLoop(_, _)
ClosureLoop(adj, st) ==
    IF st.heap = << >> THEN st.closure
    ELSE LET source == st.heap[Len(st.heap)]
             popped == [ st EXCEPT !.heap = SubSeq(st.heap, 1, Len(st.heap) - 1) ]
         IN  ClosureLoop(adj, ClosureTargets(adj[source], 1, popped))

\* Automaton::init_closure_for_assignations
init_closure_for_assignations(nb_states, assignations) ==
    LET adj == [ i \in States(nb_states) |->
                   [ k \in 1 .. Len(assignations[i]) |-> assignations[i][k][2] ] ]
    IN  [ state \in States(nb_states) |->
            ClosureLoop(adj, [ closure |-> << >>, heap |-> << state >>,
                               seen |-> {state} ]) ]

\* Automaton::new
AutomatonNew(nb_states, transitions, finals) ==
    LET assignations == init_assignations(nb_states, transitions)
    IN  [ nb_states |-> nb_states,
          transitions |-> transitions,
          finals |-> finals,
          adj |-> init_adj(nb_states, transitions),
          adj_for_char |-> EmptyMap,
          assignations |-> assignations,
          rev_assignations |-> init_rev_assignations(nb_states, transitions),
          closure_for_assignations |->
              init_closure_for_assignations(nb_states, assignations) ]

\* Automaton::get_initial
get_initial == 0

\* The adjacency lists built by get_adj_for_char for a character not cached.
AdjForChar(automaton, x) ==
    [ s \in States(automaton.nb_states) |->
        LET sel == SelectSeq(automaton.transitions,
                             LAMBDA t : t[1] = s /\ t[2].kind = "Atom"
                                         /\ is_match(t[2].atom, x))
        IN  [ k \in 1 .. Len(sel) |-> sel[k][3] ] ]

\* Automaton::get_adj_for_char: the automaton with its cache filled for x.
get_adj_for_char(automaton, x) ==
    IF x \in DOMAIN automaton.adj_for_char THEN automaton
    ELSE [ automaton EXCEPT !.adj_for_char = Put(@, x, AdjForChar(automaton, x)) ]

\* LocalLang::into_automaton
into_automaton(lang) ==
    LET iner_transitions ==
            [ k \in 1 .. Len(lang.f) |->
                << lang.f[k][1].id + 1, lang.f[k][2].label, lang.f[k][2].id + 1 >> ]
        pref_transitions ==
            [ k \in 1 .. Len(lang.p) |-> << 0, lang.p[k].label, lang.p[k].id + 1 >> ]
        finals == { lang.d[k].id + 1 : k \in 1 .. Len(lang.d) }
                    \cup (IF lang.g THEN {0} ELSE {})
    IN  AutomatonNew(lang.nb_terms + 1, iner_transitions \o pref_transitions, finals)

\* regex::compile, after Hir::from_regex has answered.
CompileHir(hir) ==
    IF ~hir.ok THEN [ ok |-> FALSE, automaton |-> AutomatonNew(1, << >>, {}) ]
    ELSE [ ok |-> TRUE, automaton |-> into_automaton(from_hir(hir.hir, 0)) ]

\* regex::compile: [ok, automaton]; ok is FALSE where the code panics.
RegexCompile(regex) == CompileHir(from_regex(reformat(regex)))

---------------------------------------------------------------------------
(* mapping::levelset::LevelSet                                             *)

\* LevelSet::new
LevelSetNew == [ levels |-> EmptyMap, vertex_index |-> EmptyMap ]

has_level(ls, level) == level \in DOMAIN ls.levels

\* LevelSet::get_level, where the level exists.
get_level(ls, level) == ls.levels[level]

get_nb_levels(ls) == Cardinality(DOMAIN ls.levels)

HasVertex(ls, level, vertex) == << level, vertex >> \in DOMAIN ls.vertex_index

\* LevelSet::get_vertex_index, where the pair is registered.
get_vertex_index(ls, level, vertex) == ls.vertex_index[<< level, vertex >>]

\* A register that pushes the vertex whether or not the pair is stored.
RegisterAlways(ls, level, vertex) ==
    LET old == IF has_level(ls, level) THEN ls.levels[level] ELSE << >>
        new == Append(old, vertex)
    IN  [ levels |-> Put(ls.levels, level, new),
          vertex_index |-> Put(ls.vertex_index, << level, vertex >>, Len(new) - 1) ]

\* LevelSet::register
register(ls, level, vertex) ==
    IF HasVertex(ls, level, vertex) THEN ls
    ELSE LET old == IF has_level(ls, level) THEN ls.levels[level] ELSE << >>
             new == Append(old, vertex)
         IN  [ levels |-> Put(ls.levels, level, new),
               vertex_index |-> Put(ls.vertex_index, << level, vertex >>, Len(new) - 1) ]

\* The loop of remove_from_level over old_level[i..]: [new_level, vertex_index].
RECURSIVE RemoveLoop(_, _, _, _, _)
RemoveLoop(old_level, i, level, del_vertices, st) ==
    IF i > Len(old_level) THEN st
    ELSE LET old_vertex == old_level[i]
         IN  RemoveLoop(old_level, i + 1, level, del_vertices,
                 IF old_vertex \notin del_vertices
                 THEN [ new_level |-> Append(st.new_level, old_vertex),
                        vertex_index |-> Put(st.vertex_index, << level, old_vertex >>,
                                             Len(st.new_level)) ]
                 ELSE [ new_level |-> st.new_level,
                        vertex_index |-> Remove(st.vertex_index, << level, old_vertex >>) ])

\* LevelSet::remove_from_level, where the level exists.
remove_from_level(ls, level, del_vertices) ==
    LET st == RemoveLoop(ls.levels[level], 1, level, del_vertices,
                         [ new_level |-> << >>, vertex_index |-> ls.vertex_index ])
    IN  [ levels |-> IF st.new_level # << >> THEN Put(ls.levels, level, st.new_level)
                     ELSE Remove(ls.levels, level),
          vertex_index |-> st.vertex_index ]

---------------------------------------------------------------------------
(* matrix::Matrix<bool>: height, width and the cells row by row.  Rows and *)
(* columns are numbered from 0 as in the code.                             *)

\* Matrix::new
MatrixNew(height, width, value) ==
    [ height |-> height, width |-> width,
      data |-> [ k \in 1 .. (height * width) |-> value ] ]

\* Matrix::data_index, shifted to the 1-based sequence.
data_index(m, row, col) == col + (row * m.width) + 1

\* Index<(usize, usize)>, where the cell exists.
Cell(m, row, col) == m.data[data_index(m, row, col)]

InMatrix(m, row, col) == data_index(m, row, col) \in DOMAIN m.data

\* Matrix::at, as an assignment.
SetCell(m, row, col, value) == [ m EXCEPT !.data[data_index(m, row, col)] = value ]

\* Matrix::iter_row: skip(row * width).take(width)
iter_row(m, row) ==
    LET from == row * m.width
        upto == IF from + m.width <= Len(m.data) THEN from + m.width ELSE Len(m.data)
    IN  IF from >= Len(m.data) THEN << >> ELSE SubSeq(m.data, from + 1, upto)

\* Matrix::iter_col: skip(col).step_by(width).take(height), width > 0.
iter_col(m, col) ==
    LET avail == IF col >= Len(m.data) THEN 0
                 ELSE ((Len(m.data) - col - 1) \div m.width) + 1
        n == IF avail < m.height THEN avail ELSE m.height
    IN  [ k \in 1 .. n |-> m.data[col + (k - 1) * m.width + 1] ]

\* Number of true cells of a sequence of booleans.
CountTrue(row) == Cardinality({ k \in DOMAIN row : row[k] })

\* tools::iter_complement: the elements of start .. end - 1 not deleted,
\* by the scan over the sorted deleted elements followed by end.
RECURSIVE ComplementScan(_, _)
ComplementScan(expected_index, indices) ==
    IF indices = << >> THEN << >>
    ELSE LET index == Head(indices)
         IN  [ k \in 1 .. (IF index > expected_index THEN index - expected_index ELSE 0)
                 |-> expected_index + k - 1 ]
             \o ComplementScan(index + 1, Tail(indices))

iter_complement(start, end, deleted) ==
    ComplementScan(start, Append(SortedSeq(deleted), end))

\* Matrix::submatrix_sorted
submatrix_sorted(m, rows, cols) ==
    [ height |-> Len(rows), width |-> Len(cols),
      data |-> [ k \in 1 .. (Len(rows) * Len(cols)) |->
                   Cell(m, rows[((k - 1) \div Len(cols)) + 1],
                           cols[((k - 1) % Len(cols)) + 1]) ] ]

\* Matrix::truncate that removes the rows and keeps every column.
TruncateRows(m, del_rows, del_cols) ==
    submatrix_sorted(m, iter_complement(0, m.height, del_rows),
                        iter_complement(0, m.width, {}))

\* Matrix::truncate
truncate(m, del_rows, del_cols) ==
    submatrix_sorted(m, iter_complement(0, m.height, del_rows),
                        iter_complement(0, m.width, del_cols))

\* Mul for &Matrix<bool>: the boolean product; zip stops at the shorter side.
MatMul(self, other) ==
    [ height |-> self.height, width |-> other.width,
      data |-> [ k \in 1 .. (self.height * other.width) |->
                   LET row == (k - 1) \div other.width
                       col == (k - 1) % other.width
                       row_iter == iter_row(self, row)
                       col_iter == iter_col(other, col)
                   IN  \E z \in 1 .. (IF Len(row_iter) < Len(col_iter)
                                      THEN Len(row_iter) ELSE Len(col_iter)) :
                           row_iter[z] /\ col_iter[z] ] ]

---------------------------------------------------------------------------
(* mapping::jump::Jump.  The record holds the fields of the struct, and    *)
(* `abort`: TRUE once an unwrap or an index of the code has panicked (the  *)
(* program stops there, the other fields keep their values of then).       *)

Abort(j) == [ j EXCEPT !.abort = TRUE ]

\* Jump::extend_level: the inner loops over old_level[i..] and its targets.
RECURSIVE ExtendTargets(_, _, _, _)
ExtendTargets(j, level, targets, k) ==
    IF k > Len(targets) THEN j
    ELSE ExtendTargets(
             [ j EXCEPT !.levelset = register(j.levelset, level, targets[k]),
                        !.nonjump_vertices = @ \cup { << level, targets[k] >> } ],
             level, targets, k + 1)

RECURSIVE ExtendSources(_, _, _, _, _)
ExtendSources(j, level, old_level, i, nonjump_adj) ==
    IF i > Len(old_level) THEN j
    ELSE ExtendSources(ExtendTargets(j, level, nonjump_adj[old_level[i]], 1),
                       level, old_level, i + 1, nonjump_adj)

\* Jump::extend_level
extend_level(j, level, nonjump_adj) ==
    IF ~has_level(j.levelset, level) THEN Abort(j)
    ELSE ExtendSources(j, level, get_level(j.levelset, level), 1, nonjump_adj)

\* The loop `for state in initial_level` of Jump::new.
RECURSIVE NewInitial(_, _, _)
NewInitial(j, initial_level, i) ==
    IF i > Len(initial_level) THEN j
    ELSE LET state == initial_level[i]
         IN  NewInitial(
                 [ j EXCEPT !.levelset = register(j.levelset, state, 0),
                            !.jl = Put(@, << 0, state >>, 0),
                            !.count_ingoing_jumps = Put(@, << 0, state >>, 0) ],
                 initial_level, i + 1)

\* Jump::new
JumpNew(initial_level, nonjump_adj) ==
    LET j0 == [ levelset |-> LevelSetNew,
                last_level |-> 0,
                nonjump_vertices |-> {},
                count_ingoing_jumps |-> EmptyMap,
                jl |-> EmptyMap,
                rlevel |-> Put(EmptyMap, 0, {}),
                rev_rlevel |-> Put(EmptyMap, 0, {}),
                reach |-> EmptyMap,
                abort |-> FALSE ]
        j1 == NewInitial(j0, initial_level, 1)
        j2 == extend_level(j1, 0, nonjump_adj)
    IN  IF j2.abort THEN j2
        ELSE [ j2 EXCEPT !.count_ingoing_jumps =
                 [ key \in (DOMAIN @) \cup { << 0, v >> : v \in Range(get_level(j2.levelset, 0)) }
                     |-> IF key[1] = 0 /\ key[2] \in Range(get_level(j2.levelset, 0))
                         THEN 0 ELSE @[key] ] ]

\* Jump::is_disconnected
is_disconnected(j) == ~has_level(j.levelset, j.last_level)

\* Jump::finals
JumpFinals(j) ==
    IF is_disconnected(j) THEN {} ELSE Range(get_level(j.levelset, j.last_level))

\* cmpt_jump_level without the test of nonjump_vertices: a source that has
\* no jump level passes on the level 0.
CmptJumpLevelUnflagged(j, last_level, source, source_jl, previous_jl) ==
    IF source_jl = -1 THEN (IF previous_jl = -1 THEN 0 ELSE previous_jl)
    ELSE IF previous_jl = -1 THEN source_jl
    ELSE IF source_jl >= previous_jl THEN source_jl ELSE previous_jl

\* The closure cmpt_jump_level of init_next_level; -1 stands for the panic
\* of source_jl.unwrap() on None.  previous_jl and source_jl are -1 for None.
cmpt_jump_level(j, last_level, source, source_jl, previous_jl) ==
    IF << last_level, source >> \in j.nonjump_vertices THEN last_level
    ELSE IF source_jl = -1 THEN -1
    ELSE IF previous_jl = -1 THEN source_jl
    ELSE IF source_jl >= previous_jl THEN source_jl ELSE previous_jl

\* init_next_level: the loop over the targets jump_adj[source][k..].
RECURSIVE NextTargets(_, _, _, _, _)
NextTargets(j, source, source_jl, targets, k) ==
    IF k > Len(targets) \/ j.abort THEN j
    ELSE LET target == targets[k]
             next_level == j.last_level + 1
             key == << next_level, target >>
             known == key \in DOMAIN j.jl
             new_jl == cmpt_jump_level(j, j.last_level, source, source_jl,
                                       IF known THEN j.jl[key] ELSE -1)
             registered == IF known THEN j.levelset
                           ELSE register(j.levelset, next_level, target)
         IN  IF new_jl = -1
             THEN Abort([ j EXCEPT !.levelset = registered ])
             ELSE NextTargets([ j EXCEPT !.levelset = registered,
                                         !.jl = Put(@, key, new_jl) ],
                              source, source_jl, targets, k + 1)

\* init_next_level: the loop over last_level_vertices[i..].
RECURSIVE NextSources(_, _, _, _)
NextSources(j, last_level_vertices, i, jump_adj) ==
    IF i > Len(last_level_vertices) \/ j.abort THEN j
    ELSE LET source == last_level_vertices[i]
             source_jl == IF << j.last_level, source >> \in DOMAIN j.jl
                          THEN j.jl[<< j.last_level, source >>] ELSE -1
         IN  NextSources(NextTargets(j, source, source_jl, jump_adj[source], 1),
                         last_level_vertices, i + 1, jump_adj)

\* init_reach: the adjacency matrix between level - 1 and level; the record
\* [ok, m], ok FALSE where get_vertex_index(..).unwrap() panics.
RECURSIVE ReachTargets(_, _, _, _, _, _)
ReachTargets(ls, level, id_source, targets, k, st) ==
    IF k > Len(targets) \/ ~st.ok THEN st
    ELSE IF ~HasVertex(ls, level, targets[k]) THEN [ st EXCEPT !.ok = FALSE ]
    ELSE ReachTargets(ls, level, id_source, targets, k + 1,
             [ st EXCEPT !.m = SetCell(@, id_source,
                                       get_vertex_index(ls, level, targets[k]), TRUE) ])

RECURSIVE ReachSources(_, _, _, _, _, _)
ReachSources(ls, level, prev_level, i, jump_adj, st) ==
    IF i > Len(prev_level) \/ ~st.ok THEN st
    ELSE IF ~HasVertex(ls, level - 1, prev_level[i]) THEN [ st EXCEPT !.ok = FALSE ]
    ELSE ReachSources(ls, level, prev_level, i + 1, jump_adj,
             ReachTargets(ls, level,
                          get_vertex_index(ls, level - 1, prev_level[i]),
                          jump_adj[prev_level[i]], 1, st))

\* The number of true cells of the row of `vertex` of layer `sublevel` in
\* reach[(sublevel, level)]: nb_pointers of init_reach and clean_level.
NbPointers(j, sublevel, level, vertex) ==
    CountTrue(iter_row(j.reach[<< sublevel, level >>],
                       j.levelset.vertex_index[<< sublevel, vertex >>]))

\* Whether the loops over the sublevels of `level` that read
\* reach[(sublevel, level)], the layer `sublevel` and its counters would
\* panic on a missing key.
PointersMissing(j, sublevels, level) ==
    \E sublevel \in sublevels :
        \/ << sublevel, level >> \notin DOMAIN j.reach
        \/ ~has_level(j.levelset, sublevel)
        \/ \E v \in Range(get_level(j.levelset, sublevel)) :
               /\ NbPointers(j, sublevel, level, v) # 0
               /\ << sublevel, v >> \notin DOMAIN j.count_ingoing_jumps

\* The counters a loop over the vertices of `sublevels` updates.
CounterKeys(j, sublevels) ==
    { key \in DOMAIN j.count_ingoing_jumps :
        /\ key[1] \in sublevels
        /\ has_level(j.levelset, key[1])
        /\ key[2] \in Range(get_level(j.levelset, key[1])) }

\* The counters after adding (sign = 1) or subtracting (sign = -1), for each
\* sublevel of the set and each of its vertices, the number of pointers
\* counts[<< sublevel, vertex >>].
UpdateCounters(j, sublevels, sign, counts) ==
    [ key \in DOMAIN j.count_ingoing_jumps |->
        IF key \in CounterKeys(j, sublevels)
        THEN j.count_ingoing_jumps[key] + sign * counts[key]
        ELSE j.count_ingoing_jumps[key] ]

\* Jump::init_reach
init_reach(j, level, jump_adj) ==
    IF ~has_level(j.levelset, level) \/ ~has_level(j.levelset, level - 1) THEN Abort(j)
    ELSE
    LET curr_level == get_level(j.levelset, level)
        prev_level == get_level(j.levelset, level - 1)
        \* Build rlevel as the image of current level by jl
        new_rlevel == { j.jl[<< level, source >>] :
                          source \in { v \in Range(curr_level) :
                                         << level, v >> \in DOMAIN j.jl } }
        \* Compute the adjacency between current level and the previous one.
        new_reach == ReachSources(j.levelset, level, prev_level, 1, jump_adj,
                         [ ok |-> TRUE,
                           m |-> MatrixNew(Len(prev_level), Len(curr_level), FALSE) ])
        products == { sublevel \in new_rlevel : sublevel < level - 1 }
        reach1 == Put(j.reach, << level - 1, level >>, new_reach.m)
        reach2 == [ key \in (DOMAIN reach1) \cup { << s, level >> : s \in products } |->
                      IF key[2] = level /\ key[1] \in products
                      THEN MatMul(reach1[<< key[1], level - 1 >>],
                                  reach1[<< level - 1, level >>])
                      ELSE reach1[key] ]
        reach3 == IF (level - 1) \notin new_rlevel
                  THEN Remove(reach2, << level - 1, level >>) ELSE reach2
        j1 == [ j EXCEPT
                  !.rlevel = Put(@, level, new_rlevel),
                  \* Update rev_rlevel for sublevels
                  !.rev_rlevel = [ l \in (DOMAIN @) \cup {level} |->
                                     IF l = level
                                     THEN (IF level \in new_rlevel THEN {level} ELSE {})
                                     ELSE IF l \in new_rlevel THEN @[l] \cup {level}
                                     ELSE @[l] ],
                  !.reach = reach3,
                  \* Init Jump counters for current level
                  !.count_ingoing_jumps =
                      [ key \in (DOMAIN @) \cup { << level, v >> : v \in Range(curr_level) }
                          |-> IF key[1] = level /\ key[2] \in Range(curr_level)
                              THEN 0 ELSE @[key] ] ]
        count == [ key \in CounterKeys(j1, new_rlevel) |->
                     NbPointers(j1, key[1], level, key[2]) ]
    IN  IF \/ \E sublevel \in new_rlevel : sublevel \notin (DOMAIN j.rev_rlevel) \cup {level}
           \/ ~new_reach.ok
           \/ \E sublevel \in products : << sublevel, level - 1 >> \notin DOMAIN j.reach
        THEN Abort(j)
        ELSE IF PointersMissing(j1, new_rlevel, level) THEN Abort(j1)
        \* Update Jump counters previous level
        ELSE [ j1 EXCEPT !.count_ingoing_jumps =
                   UpdateCounters(j1, new_rlevel, 1, count) ]

\* Jump::init_next_level
init_next_level(j, jump_adj, nonjump_adj) ==
    IF ~has_level(j.levelset, j.last_level) THEN Abort(j)
    ELSE
    LET next_level == j.last_level + 1
        j1 == NextSources(j, get_level(j.levelset, j.last_level), 1, jump_adj)
        j2 == extend_level(j1, next_level, nonjump_adj)
        j3 == init_reach(j2, next_level, jump_adj)
    IN  IF j1.abort THEN j1
        \* If at some point the next level is not reached, the output will
        \* be empty anyway.
        ELSE IF ~has_level(j1.levelset, next_level) THEN j1
        ELSE IF j2.abort THEN j2
        ELSE IF j3.abort THEN j3
        ELSE [ j3 EXCEPT !.last_level = next_level ]

\* clean_level where no target of the popped vertex is pushed on the heap.
CleanPushNone(heap, targets, k, path, lvl_vertices, seen) == heap

\* clean_level: the pushes `for target in &jump_adj[source]` of one popped
\* (source, path) onto the heap.
RECURSIVE CleanPush(_, _, _, _, _, _)
CleanPush(heap, targets, k, path, lvl_vertices, seen) ==
    IF k > Len(targets) THEN heap
    ELSE CleanPush(IF targets[k] \in lvl_vertices /\ targets[k] \notin seen
                   THEN Append(heap, << targets[k], Append(path, targets[k]) >>)
                   ELSE heap,
                   targets, k + 1, path, lvl_vertices, seen)

\* clean_level: `while let Some((source, path)) = heap.pop()`, on the
\* record [seen, del_vertices, heap, ok]; ok is FALSE where the index
\* count_ingoing_jumps[&(level, source)] panics.
RECURSIVE CleanHeap(_, _, _, _, _)
CleanHeap(j, level, jump_adj, lvl_vertices, st) ==
    IF st.heap = << >> \/ ~st.ok THEN st
    ELSE LET top == st.heap[Len(st.heap)]
             source == top[1]
             path == top[2]
             seen == st.seen \cup {source}
             counted == << level, source >> \in DOMAIN j.count_ingoing_jumps
             usefull_path ==
                 \/ j.count_ingoing_jumps[<< level, source >>] > 0
                 \/ \E k \in DOMAIN jump_adj[source] :
                        /\ jump_adj[source][k] \in lvl_vertices
                        /\ jump_adj[source][k] \notin st.del_vertices
             del == IF usefull_path THEN st.del_vertices \ Range(path)
                    ELSE st.del_vertices
             rest == IF usefull_path THEN << >> ELSE path
         IN  IF ~counted THEN [ st EXCEPT !.ok = FALSE ]
             ELSE CleanHeap(j, level, jump_adj, lvl_vertices,
                      [ seen |-> seen,
                        del_vertices |-> del,
                        heap |-> CleanPush(SubSeq(st.heap, 1, Len(st.heap) - 1),
                                           jump_adj[source], 1, rest,
                                           lvl_vertices, seen),
                        ok |-> TRUE ])

\* clean_level: `for &start in curr_level`.
RECURSIVE CleanStarts(_, _, _, _, _, _)
CleanStarts(j, level, jump_adj, curr_level, i, st) ==
    IF i > Len(curr_level) \/ ~st.ok THEN st
    ELSE IF curr_level[i] \in st.seen
    THEN CleanStarts(j, level, jump_adj, curr_level, i + 1, st)
    ELSE CleanStarts(j, level, jump_adj, curr_level, i + 1,
             CleanHeap(j, level, jump_adj, Range(curr_level),
                 [ st EXCEPT !.heap = << << curr_level[i], << curr_level[i] >> >> >> ]))

\* The vertices clean_level decides to delete from the layer: [ok, del_vertices].
CleanDelVertices(j, level, jump_adj) ==
    LET curr_level == get_level(j.levelset, level)
    IN  CleanStarts(j, level, jump_adj, curr_level, 1,
            [ seen |-> {}, del_vertices |-> Range(curr_level),
              heap |-> << >>, ok |-> TRUE ])

\* clean_level, the branch where the layer is left empty.
CleanRemovedLevel(j, j1, level) ==
    LET uplevels == j.rev_rlevel[level]
        sublevels == j.rlevel[level]
        count == [ key \in CounterKeys(j1, sublevels) |->
                     NbPointers(j1, key[1], level, key[2]) ]
    IN  IF PointersMissing(j1, sublevels, level) THEN Abort(j1)
        ELSE IF \E uplevel \in uplevels : uplevel \notin DOMAIN j.rlevel THEN Abort(j1)
        ELSE IF \E sublevel \in sublevels : sublevel \notin DOMAIN j.rev_rlevel
        THEN Abort(j1)
        ELSE [ j1 EXCEPT
                 !.count_ingoing_jumps = UpdateCounters(j1, sublevels, 1, count),
                 !.reach = [ key \in (DOMAIN @) \ { << level, u >> : u \in uplevels }
                               |-> @[key] ],
                 !.rlevel = [ l \in (DOMAIN @) \ {level} |->
                                IF l \in uplevels THEN @[l] \ {level} ELSE @[l] ],
                 !.rev_rlevel = [ l \in (DOMAIN @) \ {level} |->
                                    IF l \in sublevels THEN @[l] \ {level} ELSE @[l] ] ]

\* clean_level, the branch where vertices are left in the layer.
CleanTruncatedLevel(j, j1, level, removed_columns) ==
    LET curr_level == get_level(j1.levelset, level)
        new_rlevel == { j1.jl[<< level, v >>] :
                          v \in { v \in Range(curr_level) :
                                    << level, v >> \in DOMAIN j1.jl } }
        dropped == j.rlevel[level] \ new_rlevel
        uplevels == j.rev_rlevel[level]
        count_dropped == [ key \in CounterKeys(j1, dropped) |->
                             NbPointers(j1, key[1], level, key[2]) ]
        count_removed(sublevel, vertex) ==
            Cardinality({ col \in removed_columns :
                Cell(j1.reach[<< sublevel, level >>],
                     j1.levelset.vertex_index[<< sublevel, vertex >>], col) })
        cell_missing ==
            \E sublevel \in new_rlevel :
                \/ << sublevel, level >> \notin DOMAIN j1.reach
                \/ ~has_level(j1.levelset, sublevel)
                \/ \E v \in Range(get_level(j1.levelset, sublevel)), col \in removed_columns :
                       ~InMatrix(j1.reach[<< sublevel, level >>],
                                 j1.levelset.vertex_index[<< sublevel, v >>], col)
                \/ \E v \in Range(get_level(j1.levelset, sublevel)) :
                       /\ count_removed(sublevel, v) > 0
                       /\ << sublevel, v >> \notin DOMAIN j1.count_ingoing_jumps
        j2 == [ j1 EXCEPT !.count_ingoing_jumps =
                              UpdateCounters(j1, dropped, -1, count_dropped) ]
        j3 == [ j2 EXCEPT !.count_ingoing_jumps =
                              UpdateCounters(j2, new_rlevel, -1,
                                  [ key \in CounterKeys(j2, new_rlevel) |->
                                      count_removed(key[1], key[2]) ]) ]
        underflow == \E key \in DOMAIN j3.count_ingoing_jumps :
                         j2.count_ingoing_jumps[key] < 0 \/ j3.count_ingoing_jumps[key] < 0
    IN  IF PointersMissing(j1, dropped, level) \/ cell_missing THEN Abort(j1)
        ELSE IF underflow THEN Abort(j3)
        ELSE IF \E sublevel \in dropped : sublevel \notin DOMAIN j.rev_rlevel THEN Abort(j3)
        ELSE IF \E uplevel \in uplevels : << level, uplevel >> \notin DOMAIN j.reach
        THEN Abort(j3)
        ELSE [ j3 EXCEPT
                 \* Remove deprecated links in reach and rlevel
                 !.rev_rlevel = [ l \in DOMAIN @ |->
                                    IF l \in dropped THEN @[l] \ {level} ELSE @[l] ],
                 !.rlevel = Put(@, level, new_rlevel),
                 \* Update reach
                 !.reach = [ key \in (DOMAIN @) \ { << s, level >> : s \in dropped } |->
                               IF key[1] = level /\ key[2] \in uplevels
                               THEN truncate(@[key], removed_columns, {})
                               ELSE IF key[2] = level /\ key[1] \in new_rlevel
                               THEN truncate(@[key], {}, removed_columns)
                               ELSE @[key] ] ]

\* Jump::clean_level: [jump, removed], removed being the value returned.
clean_level(j, level, jump_adj) ==
    IF level = 0 THEN [ jump |-> j, removed |-> FALSE ]
    ELSE IF ~has_level(j.levelset, level) THEN [ jump |-> j, removed |-> FALSE ]
    ELSE
    LET st == CleanDelVertices(j, level, jump_adj)
        del_vertices == st.del_vertices
        removed_columns == { get_vertex_index(j.levelset, level, v) : v \in del_vertices }
        assert_fails ==
            \/ level \notin DOMAIN j.rlevel
            \/ \E sublevel \in j.rlevel[level] :
                   \/ << sublevel, level >> \notin DOMAIN j.reach
                   \/ \E col \in removed_columns :
                          col >= j.reach[<< sublevel, level >>].width
        j1 == [ j EXCEPT
                  !.levelset = remove_from_level(@, level, del_vertices),
                  !.jl = [ key \in (DOMAIN @) \ { << level, v >> : v \in del_vertices }
                             |-> @[key] ],
                  !.count_ingoing_jumps =
                      [ key \in (DOMAIN @) \ { << level, v >> : v \in del_vertices }
                          |-> @[key] ] ]
    IN  IF ~st.ok THEN [ jump |-> Abort(j), removed |-> FALSE ]
        ELSE IF del_vertices = {} THEN [ jump |-> j, removed |-> FALSE ]
        ELSE IF assert_fails THEN [ jump |-> Abort(j), removed |-> FALSE ]
        ELSE IF level \notin DOMAIN j.rev_rlevel
        THEN [ jump |-> Abort(j1), removed |-> FALSE ]
        ELSE IF ~has_level(j1.levelset, level)
        THEN [ jump |-> CleanRemovedLevel(j, j1, level), removed |-> TRUE ]
        ELSE [ jump |-> CleanTruncatedLevel(j, j1, level, removed_columns),
               removed |-> TRUE ]

---------------------------------------------------------------------------
(* mapping::Mapping.  An event is <<marker key, position>>; a Mapping is   *)
(* the function variable id -> <<start, end>> (Mapping.maps; two Mappings  *)
(* over one text are equal iff these functions are).                       *)

\* Mapping::from_markers, the loop over marker_assigns[i..] on the record
\* [ok, dict]; dict maps a variable id to <<start, end>>, -1 for None;
\* ok is FALSE after the panic "Can't assign ... already assigned".
RECURSIVE FromMarkersLoop(_, _, _)
FromMarkersLoop(marker_assigns, i, st) ==
    IF i > Len(marker_assigns) \/ ~st.ok THEN st
    ELSE LET marker == marker_assigns[i][1]
             pos == marker_assigns[i][2]
             var == marker[2]
             span == IF var \in DOMAIN st.dict THEN st.dict[var] ELSE << -1, -1 >>
         IN  IF marker[1] = "Open"
             THEN IF span[1] = -1
                  THEN FromMarkersLoop(marker_assigns, i + 1,
                           [ st EXCEPT !.dict = Put(@, var, << pos, span[2] >>) ])
                  ELSE [ st EXCEPT !.ok = FALSE ]
             ELSE IF span[2] = -1
                  THEN FromMarkersLoop(marker_assigns, i + 1,
                           [ st EXCEPT !.dict = Put(@, var, << span[1], pos >>) ])
                  ELSE [ st EXCEPT !.ok = FALSE ]

\* from_markers, were the final test of start <= end left out.
FromMarkersUnordered(marker_assigns) ==
    LET st == FromMarkersLoop(marker_assigns, 1, [ ok |-> TRUE, dict |-> EmptyMap ])
    IN  IF ~st.ok THEN [ ok |-> FALSE, maps |-> EmptyMap ]
        ELSE IF \A var \in DOMAIN st.dict : st.dict[var][1] # -1 /\ st.dict[var][2] # -1
        THEN [ ok |-> TRUE, maps |-> st.dict ]
        ELSE [ ok |-> FALSE, maps |-> EmptyMap ]

\* Mapping::from_markers: [ok, maps]; ok is FALSE where the code panics
\* (an event given twice, "Invalid mapping ordering").
from_markers(marker_assigns) ==
    LET st == FromMarkersLoop(marker_assigns, 1, [ ok |-> TRUE, dict |-> EmptyMap ])
    IN  IF ~st.ok THEN [ ok |-> FALSE, maps |-> EmptyMap ]
        ELSE IF \A var \in DOMAIN st.dict :
                    /\ st.dict[var][1] # -1
                    /\ st.dict[var][2] # -1
                    /\ st.dict[var][1] <= st.dict[var][2]
        THEN [ ok |-> TRUE, maps |-> st.dict ]
        ELSE [ ok |-> FALSE, maps |-> EmptyMap ]

---------------------------------------------------------------------------
(* mapping::indexed_dag::NextLevelIterator                                 *)

\* Label::get_marker: [ok, key], ok FALSE for an Atom label.
get_marker(label) ==
    IF label.kind = "Assignation" THEN [ ok |-> TRUE, key |-> MarkerKey(label.marker) ]
    ELSE [ ok |-> FALSE, key |-> << "Open", -1 >> ]

\* A value of path_set: Some(set) or None.
SomePS(set) == [ some |-> TRUE, set |-> set ]
NonePS == [ some |-> FALSE, set |-> {} ]

are_incomparable(set1, set2) == ~(set1 \subseteq set2) /\ ~(set2 \subseteq set1)

\* follow_sp_sm: `for (label, target) in &adj[source]` from edge k on, on
\* the record [ok, path_set, queue]; ok is FALSE after a panic (get_marker
\* on an Atom label, unwrap of a path_set entry that is None).
RECURSIVE FollowEdges(_, _, _, _, _, _)
FollowEdges(edges, k, source, s_p, s_m, st) ==
    IF k > Len(edges) \/ ~st.ok THEN st
    ELSE LET label == get_marker(edges[k][1])
             target == edges[k][2]
             queue == IF target \notin DOMAIN st.path_set
                      THEN Append(st.queue, target) ELSE st.queue
             src_ps == st.path_set[source]
             new_ps == IF label.key \in s_p THEN src_ps.set \cup {label.key}
                       ELSE src_ps.set
             entry == IF target \notin DOMAIN st.path_set THEN SomePS(new_ps)
                      ELSE IF ~st.path_set[target].some THEN NonePS
                      ELSE IF are_incomparable(new_ps, st.path_set[target].set)
                      THEN NonePS
                      ELSE SomePS(new_ps)
         IN  IF ~label.ok THEN [ st EXCEPT !.ok = FALSE ]
             ELSE IF label.key \in s_m
             THEN FollowEdges(edges, k + 1, source, s_p, s_m, st)
             ELSE IF ~src_ps.some THEN [ st EXCEPT !.ok = FALSE, !.queue = queue ]
             ELSE FollowEdges(edges, k + 1, source, s_p, s_m,
                      [ ok |-> TRUE,
                        path_set |-> Put(st.path_set, target, entry),
                        queue |-> queue ])

\* follow_sp_sm: `while let Some(source) = queue.pop_front()`.
RECURSIVE FollowQueue(_, _, _, _)
FollowQueue(adj, s_p, s_m, st) ==
    IF st.queue = << >> \/ ~st.ok THEN st
    ELSE FollowQueue(adj, s_p, s_m,
             FollowEdges(adj[Head(st.queue)], 1, Head(st.queue), s_p, s_m,
                         [ st EXCEPT !.queue = Tail(st.queue) ]))

\* NextLevelIterator::follow_sp_sm: [ok, gamma2]; gamma2 is given as a
\* set: the vector is filled in the iteration order of a HashMap, and its
\* users (is_empty, contains, Jump::jump) do not depend on its order.
follow_sp_sm(automaton, gamma, s_p, s_m) ==
    LET st == FollowQueue(automaton.rev_assignations, s_p, s_m,
                  [ ok |-> TRUE,
                    path_set |-> [ state \in Range(gamma) |-> SomePS({}) ],
                    queue |-> gamma ])
    IN  [ ok |-> st.ok,
          gamma2 |-> { vertex \in DOMAIN st.path_set :
                         /\ st.path_set[vertex].some
                         /\ Cardinality(st.path_set[vertex].set) = Cardinality(s_p) } ]


\* A NextLevelIterator: expected_markers is the vector collected from the
\* HashSet K, gamma the start states, stack the pairs <<S+, S->>.
NextLevelEmpty == [ expected_markers |-> << >>, gamma |-> << >>, stack |-> << >> ]

\* explore, were the pair (S+, S-) = ({}, {}) put twice on the stack.
ExploreTwice(expected_markers, gamma) ==
    [ expected_markers |-> expected_markers, gamma |-> gamma,
      stack |-> << << {}, {} >>, << {}, {} >> >> ]

explore(expected_markers, gamma) ==
    [ expected_markers |-> expected_markers, gamma |-> gamma,
      stack |-> << << {}, {} >> >> ]

\* NextLevelIterator::next, `while s_p.len() + s_m.len() < expected_markers.len()`
\* on the record [ok, s_p, s_m, have, gamma2, stack]; have is FALSE where
\* gamma2 is None.
RECURSIVE NextLevelGrow(_, _, _)
NextLevelGrow(automaton, nl, st) ==
    LET depth == Cardinality(st.s_p) + Cardinality(st.s_m)
    IN  IF ~st.ok \/ depth >= Len(nl.expected_markers) THEN st
        ELSE LET marker == nl.expected_markers[depth + 1]
                 s_p == st.s_p \cup {marker}
                 res == follow_sp_sm(automaton, nl.gamma, s_p, st.s_m)
             IN  IF ~res.ok THEN [ st EXCEPT !.ok = FALSE ]
                 ELSE IF res.gamma2 # {}
                 THEN NextLevelGrow(automaton, nl,
                          [ ok |-> TRUE, s_p |-> s_p, s_m |-> st.s_m,
                            have |-> TRUE, gamma2 |-> res.gamma2,
                            stack |-> Append(st.stack,
                                             << s_p \ {marker}, st.s_m \cup {marker} >>) ])
                 ELSE NextLevelGrow(automaton, nl,
                          [ ok |-> TRUE, s_p |-> st.s_p, s_m |-> st.s_m \cup {marker},
                            have |-> FALSE, gamma2 |-> {},
                            stack |-> st.stack ])

\* NextLevelIterator::next: [ok, some, s_p, gamma2, nl]; some is FALSE for
\* None, ok is FALSE where follow_sp_sm panics.
RECURSIVE NextLevelNext(_, _)
NextLevelNext(automaton, nl) ==
    IF nl.stack = << >>
    THEN [ ok |-> TRUE, some |-> FALSE, s_p |-> {}, gamma2 |-> {}, nl |-> nl ]
    ELSE LET top == nl.stack[Len(nl.stack)]
             popped == SubSeq(nl.stack, 1, Len(nl.stack) - 1)
             first == follow_sp_sm(automaton, nl.gamma, top[1], top[2])
             st == NextLevelGrow(automaton, nl,
                       [ ok |-> TRUE, s_p |-> top[1], s_m |-> top[2],
                         have |-> TRUE, gamma2 |-> first.gamma2, stack |-> popped ])
             last == IF st.have THEN [ ok |-> TRUE, gamma2 |-> st.gamma2 ]
                     ELSE follow_sp_sm(automaton, nl.gamma, st.s_p, st.s_m)
             failed == [ ok |-> FALSE, some |-> FALSE, s_p |-> {}, gamma2 |-> {},
                         nl |-> nl ]
         IN  IF ~first.ok THEN failed
             ELSE IF first.gamma2 = {}
             THEN NextLevelNext(automaton, [ nl EXCEPT !.stack = popped ])
             ELSE IF ~st.ok \/ ~last.ok THEN failed
             ELSE [ ok |-> TRUE, some |-> TRUE, s_p |-> st.s_p,
                    gamma2 |-> last.gamma2,
                    nl |-> [ nl EXCEPT !.stack = st.stack ] ]

---------------------------------------------------------------------------
(* mapping::indexed_dag::IndexedDag                                        *)

\* The walk of IndexedDag::next_level over `stack`: [ok, k, marks]; ok is
\* FALSE where get_marker().unwrap() panics.  The stack is popped from its
\* end.
RECURSIVE NextLevelMarks(_, _, _)
NextLevelMarks(adj, stack, st) ==
    IF stack = << >> \/ ~st.ok THEN st
    ELSE LET source == stack[Len(stack)]
             edges == adj[source]
             labels == { get_marker(edges[i][1]) : i \in DOMAIN edges }
             fresh == SelectSeq([ i \in DOMAIN edges |-> edges[i][2] ],
                                LAMBDA target : target \notin st.marks)
             \* a target met twice in edges is pushed once
             pushed == SelectSeq([ i \in DOMAIN fresh |->
                                     IF \E h \in 1 .. (i - 1) : fresh[h] = fresh[i]
                                     THEN -1 ELSE fresh[i] ],
                                 LAMBDA target : target # -1)
         IN  NextLevelMarks(adj, SubSeq(stack, 1, Len(stack) - 1) \o pushed,
                 [ ok |-> \A label \in labels : label.ok,
                   k |-> st.k \cup { label.key : label \in labels },
                   marks |-> st.marks \cup Range(pushed) ])

\* IndexedDag::next_level, up to the HashSet K: [ok, k].
next_level_markers(automaton, gamma) ==
    NextLevelMarks(automaton.rev_assignations, gamma,
                   [ ok |-> TRUE, k |-> {}, marks |-> Range(gamma) ])

\* char_offsets, were positions counted in code points and not in bytes.
CodePointOffsets(text) == [ i \in 1 .. (Len(text) + 1) |-> i - 1 ]

\* IndexedDag::compile, char_offsets: the byte offset of every char of the
\* text, then the byte length of the text.
RECURSIVE char_offsets(_)
char_offsets(text) ==
    IF text = << >> THEN << 0 >>
    ELSE LET init == char_offsets(SubSeq(text, 1, Len(text) - 1))
         IN  Append(init, init[Len(init)] + LenUtf8(text[Len(text)]))

\* Jump::jump with the lowest jump level of gamma in place of the highest.
JumpToMin(j, level, gamma) ==
    LET jls == { j.jl[<< level, vertex >>] :
                   vertex \in { v \in gamma : << level, v >> \in DOMAIN j.jl } }
        jump_level == Min(jls)
        sources == { get_vertex_index(j.levelset, level, source) :
                       source \in { v \in gamma : HasVertex(j.levelset, level, v) } }
        vertices == get_level(j.levelset, jump_level)
        key == << jump_level, level >>
        bad == \/ ~has_level(j.levelset, jump_level)
               \/ /\ sources # {}
                  /\ vertices # << >>
                  /\ \/ key \notin DOMAIN j.reach
                     \/ \E l \in 0 .. (Len(vertices) - 1), k \in sources :
                            \/ ~InMatrix(j.reach[key], l, k)
                            \/ k >= j.reach[key].width
                            \/ l >= j.reach[key].height
    IN  IF jls = {} THEN [ ok |-> TRUE, level |-> level, gamma |-> << >> ]
        ELSE IF jump_level = level THEN [ ok |-> TRUE, level |-> level, gamma |-> << >> ]
        ELSE IF bad THEN [ ok |-> FALSE, level |-> level, gamma |-> << >> ]
        ELSE [ ok |-> TRUE, level |-> jump_level,
               gamma |->
                   LET kept == SelectSeq([ l \in DOMAIN vertices |-> << l - 1, vertices[l] >> ],
                                         LAMBDA lt : \E k \in sources :
                                                         Cell(j.reach[key], lt[1], k))
                   IN  [ i \in DOMAIN kept |-> kept[i][2] ] ]

\* Jump::jump (named jump_to: `jump` is the field IndexedDag.jump):
\* [ok, level, gamma]; ok is FALSE where the code panics (a level or a
\* reach matrix that is missing, a cell outside the matrix).
jump_to(j, level, gamma) ==
    LET jls == { j.jl[<< level, vertex >>] :
                   vertex \in { v \in gamma : << level, v >> \in DOMAIN j.jl } }
        jump_level == Max(jls)
        sources == { get_vertex_index(j.levelset, level, source) :
                       source \in { v \in gamma : HasVertex(j.levelset, level, v) } }
        vertices == get_level(j.levelset, jump_level)
        key == << jump_level, level >>
        bad == \/ ~has_level(j.levelset, jump_level)
               \/ /\ sources # {}
                  /\ vertices # << >>
                  /\ \/ key \notin DOMAIN j.reach
                     \/ \E l \in 0 .. (Len(vertices) - 1), k \in sources :
                            \/ ~InMatrix(j.reach[key], l, k)
                            \/ k >= j.reach[key].width
                            \/ l >= j.reach[key].height
    IN  IF jls = {} THEN [ ok |-> TRUE, level |-> level, gamma |-> << >> ]
        ELSE IF jump_level = level THEN [ ok |-> TRUE, level |-> level, gamma |-> << >> ]
        ELSE IF bad THEN [ ok |-> FALSE, level |-> level, gamma |-> << >> ]
        ELSE [ ok |-> TRUE, level |-> jump_level,
               gamma |->
                   LET kept == SelectSeq([ l \in DOMAIN vertices |-> << l - 1, vertices[l] >> ],
                                         LAMBDA lt : \E k \in sources :
                                                         Cell(j.reach[key], lt[1], k))
                   IN  [ i \in DOMAIN kept |-> kept[i][2] ] ]


---------------------------------------------------------------------------
(* mapping::naive::NaiveEnum                                               *)

\* The byte position CharIndices gives for the char of index `index`, the
\* byte length of the text when the text is exhausted.
RECURSIVE CharIndexPos(_, _)
CharIndexPos(text, index) ==
    IF index = 0 THEN 0
    ELSE CharIndexPos(text, index - 1) + LenUtf8(text[index])

\* NaiveEnum::next, `for (label, target) in &adj[state]`: what is pushed.
RECURSIVE NaivePush(_, _, _, _, _, _)
NaivePush(text, edges, k, index, assigns, pushed) ==
    IF k > Len(edges) THEN pushed
    ELSE LET label == edges[k][1]
             target == edges[k][2]
             has_char == index < Len(text)
             new == IF label.kind = "Atom"
                    THEN IF has_char /\ is_match(label.atom, text[index + 1])
                         THEN << << target, index + 1, assigns >> >>
                         ELSE << >>
                    ELSE << << target, index,
                               Append(assigns, << MarkerKey(label.marker),
                                                  CharIndexPos(text, index) >>) >> >>
         IN  NaivePush(text, edges, k + 1, index, assigns, pushed \o new)

\* All the calls of NaiveEnum::next until None: [ok, out], out the
\* sequence of Mappings returned, ok FALSE where from_markers panics.
RECURSIVE NaiveRun(_, _, _, _)
NaiveRun(automaton, text, curr_state, out) ==
    IF curr_state = << >> THEN [ ok |-> TRUE, out |-> out ]
    ELSE LET top == curr_state[Len(curr_state)]
             state == top[1]
             index == top[2]
             assigns == top[3]
             rest == SubSeq(curr_state, 1, Len(curr_state) - 1)
                       \o NaivePush(text, automaton.adj[state], 1, index, assigns, << >>)
             mapping == from_markers(assigns)
         IN  IF index = Len(text) /\ state \in automaton.finals
             THEN IF ~mapping.ok THEN [ ok |-> FALSE, out |-> out ]
                  ELSE IF Contains(out, mapping.maps)
                  THEN NaiveRun(automaton, text, rest, out)
                  ELSE NaiveRun(automaton, text, rest, Append(out, mapping.maps))
             ELSE NaiveRun(automaton, text, rest, out)

NaiveEnum(automaton, text) ==
    NaiveRun(automaton, text, << << get_initial, 0, << >> >> >>, << >>)


---------------------------------------------------------------------------
(* The inputs: patterns as the user writes them, texts over a, b and the   *)
(* two-byte character e-acute.                                             *)

Alphabet == { CodePoint["a"], CodePoint["b"], 233 }

Texts == SeqsUpTo(Alphabet, MaxTextLen)

\* .*
RegexDotStar == << ".", "*" >>
\* a
RegexA == << "a" >>
\* ^a
RegexBeginA == << "^", "a" >>
\* ^a*$
RegexAStar == << "^", "a", "*", "$" >>
\* (?P<x>a)+
RegexGroupPlus == << "(", "?", "P", "<", "x", ">", "a", ")", "+" >>
\* ^(?P<x>a*)|(?P<y>b*)$
RegexGroupAlt ==
    << "^", "(", "?", "P", "<", "x", ">", "a", "*", ")", "|",
       "(", "?", "P", "<", "y", ">", "b", "*", ")", "$" >>
\* ^(?P<x>a*)?b$
RegexGroupOpt ==
    << "^", "(", "?", "P", "<", "x", ">", "a", "*", ")", "?", "b", "$" >>
\* ^.(?P<x>.)
RegexSecondChar == << "^", ".", "(", "?", "P", "<", "x", ">", ".", ")" >>

\* ^(?P<x>a)|(?P<y>a)$
RegexTwoGroups ==
    << "^", "(", "?", "P", "<", "x", ">", "a", ")", "|",
       "(", "?", "P", "<", "y", ">", "a", ")", "$" >>

Regexes ==
    { RegexDotStar, RegexA, RegexBeginA, RegexAStar, RegexGroupPlus,
      RegexGroupOpt, RegexSecondChar, RegexTwoGroups }

\* The pairs <<regex, text>> the engine is run on.
Inputs == (Regexes \X Texts) \cup { << RegexGroupAlt, << >> >> }

---------------------------------------------------------------------------
(* The state of one run: compile the pattern, index the text, enumerate.   *)

VARIABLES
    regex,            \* the pattern given to regex::compile
    text,             \* the text given to IndexedDag::compile
    pc,               \* "start", "compiled", "indexing", "indexed",
                      \* "enumerating", "done", "panic"
    automaton,        \* IndexedDag.automaton
    jump,             \* IndexedDag.jump
    offsets,          \* IndexedDag.char_offsets
    curr_level,       \* the counter curr_level of IndexedDag::compile
    dead_calls,       \* init_next_level calls made after one that reached
                      \* no state (history)
    dead,             \* an init_next_level call reached no state (history)
    stack,            \* IndexedDagIterator.stack
    it_level,         \* IndexedDagIterator.curr_level
    curr_mapping,     \* IndexedDagIterator.curr_mapping
    curr_next_level,  \* IndexedDagIterator.curr_next_level
    output            \* the Mappings returned by IndexedDagIterator::next

vars ==
    << regex, text, pc, automaton, jump, offsets, curr_level, dead_calls, dead,
       stack, it_level, curr_mapping, curr_next_level, output >>

index_vars == << automaton, jump, offsets, curr_level, dead_calls, dead >>
iter_vars == << stack, it_level, curr_mapping, curr_next_level, output >>

NoAutomaton == AutomatonNew(1, << >>, {})
NoJump == JumpNew(<< get_initial >>, EmptyAdj(1))

InitWith(inputs) ==
    /\ \E input \in inputs : regex = input[1] /\ text = input[2]
    /\ pc = "start"
    /\ automaton = NoAutomaton
    /\ jump = NoJump
    /\ offsets = << >>
    /\ curr_level = 0
    /\ dead_calls = 0
    /\ dead = FALSE
    /\ stack = << >>
    /\ it_level = 0
    /\ curr_mapping = << >>
    /\ curr_next_level = NextLevelEmpty
    /\ output = << >>

Init == InitWith(Inputs)

\* regex::compile
Compile ==
    /\ pc = "start"
    /\ \E res \in { RegexCompile(regex) } :
           /\ automaton' = res.automaton
           /\ pc' = IF res.ok THEN "compiled" ELSE "panic"
    /\ UNCHANGED << regex, text, jump, offsets, curr_level, dead_calls, dead >>
    /\ UNCHANGED iter_vars

\* IndexedDag::compile, up to its loop: char_offsets and Jump::new.
CompileInit ==
    /\ pc = "compiled"
    /\ offsets' = char_offsets(text)
    /\ jump' = JumpNew(<< get_initial >>, automaton.closure_for_assignations)
    /\ curr_level' = 0
    /\ pc' = IF jump'.abort THEN "panic"
             ELSE IF text = << >> THEN "indexed" ELSE "indexing"
    /\ UNCHANGED << regex, text, automaton, dead_calls, dead >>
    /\ UNCHANGED iter_vars

\* A depth of cleaning that is 1 at every level.
LowestBitOne(n) == 1

\* Highest power of two that divides curr_level (curr_level & -curr_level).
RECURSIVE LowestBit(_)
LowestBit(n) == IF n % 2 = 1 THEN 1 ELSE 2 * LowestBit(n \div 2)

\* `for level in ((curr_level - depth + 1)..=curr_level).rev()`
RECURSIVE CleanLevels(_, _, _, _)
CleanLevels(j, level, lowest, jump_adj) ==
    IF level < lowest \/ j.abort THEN j
    ELSE CleanLevels(clean_level(j, level, jump_adj).jump, level - 1, lowest, jump_adj)

\* IndexedDag::compile, one turn of `while let Some(curr_char) = progress.next()`.
CompileStep ==
    /\ pc = "indexing"
    /\ curr_level < Len(text)
    /\ \E curr_char \in { text[curr_level + 1] } :
       \E cached \in { get_adj_for_char(automaton, curr_char) } :
       \E closure \in { automaton.closure_for_assignations } :
       \E j1 \in { init_next_level(jump, cached.adj_for_char[curr_char], closure) } :
       \E j2 \in { IF curr_level > 0 /\ ~j1.abort
                   THEN CleanLevels(j1, curr_level,
                                    curr_level - LowestBit(curr_level) + 1, closure)
                   ELSE j1 } :
           /\ automaton' = cached
           /\ jump' = j2
           /\ dead' = (dead \/ (~j1.abort /\ j1.last_level = jump.last_level))
           /\ dead_calls' = IF dead THEN dead_calls + 1 ELSE dead_calls
           /\ curr_level' = curr_level + 1
           /\ pc' = IF j2.abort THEN "panic"
                    ELSE IF is_disconnected(j2) \/ curr_level + 1 = Len(text)
                    THEN "indexed"
                    ELSE "indexing"
    /\ UNCHANGED << regex, text, offsets >>
    /\ UNCHANGED iter_vars


\* IndexedDagIterator::init.  `start` is collected from a HashSet: its
\* order is any order of the set.
IterInit ==
    /\ pc = "indexed"
    /\ \E start \in Perms(JumpFinals(jump) \cap automaton.finals) :
           stack' = << << Len(text), start, << >> >> >>
    /\ it_level' = 0
    /\ curr_mapping' = << >>
    /\ curr_next_level' = NextLevelEmpty
    /\ pc' = "enumerating"
    /\ UNCHANGED << regex, text, output >>
    /\ UNCHANGED index_vars

\* `for marker in s_p { new_mapping.push((marker, self.curr_level)) }`; the
\* markers of s_p are pushed in one order of the set (Mapping::from_markers
\* gives the same result for every order of distinct markers).
PushMarkers(mapping, s_p, level) ==
    LET order == CHOOSE p \in Perms(s_p) : TRUE
    IN  mapping \o [ i \in DOMAIN order |-> << order[i], level >> ]

\* `.map(|(marker, pos)| (marker.clone(), char_offsets[pos]))`
AlignMarkers(mapping, offs) ==
    [ i \in DOMAIN mapping |-> << mapping[i][1], offs[mapping[i][2] + 1] >> ]

\* The fields of an IndexedDagIterator, with the Mappings it has returned
\* and whether it is running, has returned None or has panicked.
IterRecord(st, lvl, mapping, nl, out, at) ==
    [ stack |-> st, curr_level |-> lvl, curr_mapping |-> mapping,
      curr_next_level |-> nl, output |-> out, pc |-> at ]

\* IndexedDagIterator::next, the body of
\* `while let Some((s_p, new_gamma)) = self.curr_next_level.next()` for the
\* pair res: the pair is dropped, or a Mapping is returned, or a frame is
\* pushed.
Consume(dag_automaton, dag_jump, offs, it, res) ==
    LET new_mapping == PushMarkers(it.curr_mapping, res.s_p, it.curr_level)
        mapping == from_markers(AlignMarkers(new_mapping, offs))
        target == jump_to(dag_jump, it.curr_level, res.gamma2)
        taken == [ it EXCEPT !.curr_next_level = res.nl ]
    IN  IF ~res.ok THEN [ it EXCEPT !.pc = "panic" ]
        ELSE IF res.gamma2 = {} THEN taken
        ELSE IF it.curr_level = 0 /\ get_initial \in res.gamma2
        THEN IF mapping.ok
             THEN [ taken EXCEPT !.output = Append(@, mapping.maps) ]
             ELSE [ taken EXCEPT !.pc = "panic" ]
        ELSE IF ~target.ok THEN [ taken EXCEPT !.pc = "panic" ]
        ELSE IF target.gamma # << >>
        THEN [ taken EXCEPT !.stack = Append(@, << target.level, target.gamma,
                                                   new_mapping >>) ]
        ELSE taken

\* IndexedDagIterator::next, `match self.stack.pop()`: None ends the
\* enumeration; a frame is handed to IndexedDag::next_level, whose HashSet
\* K is collected in the order expected_markers.
Pop(it, markers, expected_markers) ==
    IF it.stack = << >> THEN [ it EXCEPT !.pc = "done" ]
    ELSE LET top == it.stack[Len(it.stack)]
         IN  [ stack |-> SubSeq(it.stack, 1, Len(it.stack) - 1),
               curr_level |-> top[1],
               curr_mapping |-> top[3],
               curr_next_level |-> explore(expected_markers, top[2]),
               output |-> it.output,
               pc |-> IF markers.ok THEN it.pc ELSE "panic" ]

\* The HashSet K of the frame on top of the stack.
TopMarkers(dag_automaton, it) ==
    IF it.stack = << >> THEN [ ok |-> TRUE, k |-> {} ]
    ELSE next_level_markers(dag_automaton, it.stack[Len(it.stack)][2])

\* One turn of the inner loop of IndexedDagIterator::next.
IterConsume ==
    /\ pc = "enumerating"
    /\ \E res \in { NextLevelNext(automaton, curr_next_level) } :
           /\ ~res.ok \/ res.some
           /\ \E it \in { Consume(automaton, jump, offsets,
                                   IterRecord(stack, it_level, curr_mapping,
                                              curr_next_level, output, pc), res) } :
                  /\ stack' = it.stack
                  /\ curr_next_level' = it.curr_next_level
                  /\ output' = it.output
                  /\ pc' = it.pc
    /\ UNCHANGED << regex, text, it_level, curr_mapping >>
    /\ UNCHANGED index_vars

\* The pop of IndexedDagIterator::next once curr_next_level is exhausted.
\* expected_markers is collected from a HashSet: its order is any order of
\* the set.
IterPop ==
    /\ pc = "enumerating"
    /\ \E res \in { NextLevelNext(automaton, curr_next_level) } : res.ok /\ ~res.some
    /\ \E now \in { IterRecord(stack, it_level, curr_mapping, curr_next_level,
                                 output, pc) } :
       \E markers \in { TopMarkers(automaton, now) } :
       \E expected_markers \in Perms(markers.k) :
       \E it \in { Pop(now, markers, expected_markers) } :
           /\ stack' = it.stack
           /\ it_level' = it.curr_level
           /\ curr_mapping' = it.curr_mapping
           /\ curr_next_level' = it.curr_next_level
           /\ pc' = it.pc
    /\ UNCHANGED << regex, text, output >>
    /\ UNCHANGED index_vars

Next == Compile \/ CompileInit \/ CompileStep \/ IterInit \/ IterConsume \/ IterPop

Spec == Init /\ [][Next]_vars

\* The enumeration run to its end under one traversal policy: every set is
\* listed in the one order Policy gives it.
Policy(S) == CHOOSE p \in Perms(S) : TRUE

RECURSIVE PolicyRun(_, _, _, _)
PolicyRun(dag_automaton, dag_jump, offs, it) ==
    IF it.pc # "enumerating" THEN it
    ELSE LET res == NextLevelNext(dag_automaton, it.curr_next_level)
             markers == TopMarkers(dag_automaton, it)
         IN  IF ~res.ok \/ res.some
             THEN PolicyRun(dag_automaton, dag_jump, offs,
                            Consume(dag_automaton, dag_jump, offs, it, res))
             ELSE PolicyRun(dag_automaton, dag_jump, offs,
                            Pop(it, markers, Policy(markers.k)))

\* IndexedDag::iter run until None (or a panic) under Policy.
PolicyEnum(dag_automaton, dag_jump, offs, nb_chars) ==
    PolicyRun(dag_automaton, dag_jump, offs,
              IterRecord(<< << nb_chars,
                               Policy(JumpFinals(dag_jump) \cap dag_automaton.finals),
                               << >> >> >>,
                         0, << >>, NextLevelEmpty, << >>, "enumerating"))

---------------------------------------------------------------------------
(* Mapping::from_markers on its own: the event list is in curr_mapping,    *)
(* the Mapping returned is put in output.                                  *)

\* The events given to from_markers: Open and Close of two variables at
\* two byte positions.
Events == { << << kind, id >>, pos >> : kind \in {"Open", "Close"}, id \in {0, 1},
                                         pos \in {0, 1} }

InitMarkers ==
    /\ regex = << >>
    /\ text = << >>
    /\ pc = "markers"
    /\ automaton = NoAutomaton
    /\ jump = NoJump
    /\ offsets = << >>
    /\ curr_level = 0
    /\ dead_calls = 0
    /\ dead = FALSE
    /\ stack = << >>
    /\ it_level = 0
    /\ curr_mapping \in SeqsUpTo(Events, MaxEvents)
    /\ curr_next_level = NextLevelEmpty
    /\ output = << >>

\* A call of Mapping::from_markers.
FromMarkers ==
    /\ pc = "markers"
    /\ LET mapping == from_markers(curr_mapping)
       IN  /\ output' = IF mapping.ok THEN << mapping.maps >> ELSE << >>
           /\ pc' = IF mapping.ok THEN "returned" ELSE "rejected"
    /\ UNCHANGED << regex, text, stack, it_level, curr_mapping, curr_next_level >>
    /\ UNCHANGED index_vars

NextMarkers == FromMarkers

SpecMarkers == InitMarkers /\ [][NextMarkers]_vars

---------------------------------------------------------------------------
(* regex::is_match on the anchored repetition patterns ^a{m}$, ^a{m,}$ and *)
(* ^a{m,n}$ over the texts a^k.                                            *)

DigitChar(d) == << "0", "1", "2", "3" >>[d + 1]

RepPattern(kind, m, n) ==
    << "^", "a", "{", DigitChar(m) >>
      \o (IF kind = "Exactly" THEN << >>
          ELSE IF kind = "AtLeast" THEN << "," >>
          ELSE << ",", DigitChar(n) >>)
      \o << "}", "$" >>

RepKinds == { "Exactly", "AtLeast", "Bounded" }

\* The ranges {m}, {m,} and {m,n} with m <= n, as <<kind, m, n>>.
RepRanges ==
    { r \in RepKinds \X (0 .. MaxRep) \X (0 .. MaxRep) :
        IF r[1] = "Bounded" THEN r[2] <= r[3] ELSE r[3] = r[2] }

InputsRepetition ==
    { << RepPattern(r[1], r[2], r[3]), Repeat(<< CodePoint["a"] >>, k) >> :
        r \in RepRanges, k \in 0 .. MaxTextLen }

InitRepetition == InitWith(InputsRepetition)

SpecRepetition == InitRepetition /\ [][Next]_vars


---------------------------------------------------------------------------
(* Properties.                                                             *)

\* The enumeration has ended: IndexedDagIterator::next returned None or
\* panicked.
Ended == pc \in { "done", "panic" }

\* The oracle of the tests: NaiveEnum over the compiled automaton.
Oracle == NaiveEnum(automaton, text)

\* The ids of the variables named in the pattern.
VariableIds ==
    { automaton.transitions[k][2].marker.var.id :
        k \in { i \in DOMAIN automaton.transitions :
                  automaton.transitions[i][2].kind = "Assignation" } }

\* The id of the variable `match` that reformat adds.
MatchId ==
    CHOOSE id \in VariableIds :
        \E k \in DOMAIN automaton.transitions :
            /\ automaton.transitions[k][2].kind = "Assignation"
            /\ automaton.transitions[k][2].marker.var.id = id
            /\ automaton.transitions[k][2].marker.var.name
                 = << "m", "a", "t", "c", "h" >>

\* The language of the automaton contains the empty word.
AcceptsEmpty ==
    \E state \in {get_initial} \cup Range(automaton.closure_for_assignations[get_initial]) :
        state \in automaton.finals

\* C1: once the enumeration has ended and the naive enumerator ends
\* without panic on the same automaton and text, the set of Mappings the
\* engine yielded equals the set the naive enumerator yields.
C1_EngineEqualsNaive ==
    (pc = "done" /\ Oracle.ok) => Range(output) = Range(Oracle.out)

\* C2: one enumeration never yields two equal Mappings.
C2_NoDuplicate ==
    \A i, k \in DOMAIN output : i # k => output[i] # output[k]

\* C2, witness: an enumeration that returned None after several Mappings.
C2_Witness == pc = "done" /\ Len(output) >= 3

\* C3: every run over one (automaton, text) returns the Mappings the run
\* under one fixed traversal policy returns, in the same order, whatever
\* order the sets (finals intersection, marker set K) are iterated in.
C3_SameOrder ==
    Ended =>
        LET run == PolicyEnum(automaton, jump, offsets, Len(text))
        IN  output = run.output /\ pc = run.pc

\* C4: once a call of init_next_level reaches no state, init_next_level is
\* not called again and the enumeration yields no Mapping.
C4_StopsWhenDisconnected ==
    /\ dead_calls = 0
    /\ dead => output = << >>

\* C5: for a regex the parser accepts, neither preprocessing nor
\* enumeration ever panics.
C5_NoAbort == pc # "panic"

\* The variables of an event list.
EventVars(events) == { events[i][1][2] : i \in DOMAIN events }

\* The positions an event list gives for a marker.
EventPos(events, kind, var) ==
    { events[i][2] : i \in { h \in DOMAIN events : events[h][1] = << kind, var >> } }

\* An event list Mapping::from_markers has to refuse: a marker given
\* twice, or a variable lacking Open or Close, or with start > end.
BadEvents(events) ==
    \/ \E i, k \in DOMAIN events : i # k /\ events[i][1] = events[k][1]
    \/ \E var \in EventVars(events) :
           \/ EventPos(events, "Open", var) = {}
           \/ EventPos(events, "Close", var) = {}
           \/ \E start \in EventPos(events, "Open", var),
                 end \in EventPos(events, "Close", var) : start > end

\* C6: from_markers ends in an error whenever its event list holds a
\* marker twice or a variable with start > end or lacking one of its two
\* events; otherwise it returns exactly one entry per variable of the
\* events, its start taken from Open and its end from Close.
C6_FromMarkers ==
    /\ pc = "rejected" => BadEvents(curr_mapping)
    /\ pc = "returned" =>
           /\ ~BadEvents(curr_mapping)
           /\ Len(output) = 1
           /\ DOMAIN output[1] = EventVars(curr_mapping)
           /\ \A var \in EventVars(curr_mapping) :
                  /\ EventPos(curr_mapping, "Open", var) = { output[1][var][1] }
                  /\ EventPos(curr_mapping, "Close", var) = { output[1][var][2] }

\* C6, witness: a Mapping returned for two variables, one of them empty.
C6_Witness ==
    /\ pc = "returned"
    /\ Len(curr_mapping) = 4
    /\ DOMAIN output[1] = {0, 1}
    /\ output[1][0] = << 0, 1 >>
    /\ output[1][1] = << 1, 1 >>

\* The byte offsets of the code-point boundaries of the text.
Boundaries == { CharIndexPos(text, p) : p \in 0 .. Len(text) }

\* C7: every span endpoint of every Mapping yielded is the byte offset of
\* a code-point boundary of the text (between 0 and its byte length), and,
\* where the naive enumerator ends without panic, the Mapping is one the
\* naive enumerator reports, with the same byte positions.
C7_ByteOffsets ==
    /\ \A i \in DOMAIN output : \A var \in DOMAIN output[i] :
           output[i][var][1] \in Boundaries /\ output[i][var][2] \in Boundaries
    /\ (Ended /\ Oracle.ok) => Range(output) \subseteq Range(Oracle.out)

\* C7, witness: a span that starts after a two-byte character, at byte 2
\* where the code-point index is 1.
C7_Witness ==
    /\ pc = "done"
    /\ regex = RegexSecondChar
    /\ text = << 233, CodePoint["a"] >>
    /\ \E var \in DOMAIN output[1] : output[1][var] = << 2, 3 >>

\* C8 as stated: for the regex .* and a text of n code points the engine
\* yields n(n+1)/2 Mappings.
C8_Stated ==
    (regex = RegexDotStar /\ pc = "done") =>
        2 * Len(output) = Len(text) * (Len(text) + 1)

\* C8, amended: for the regex .* and a text of n code points the engine
\* yields (n+1)(n+2)/2 Mappings, one per span [i, j) with 0 <= i <= j <= n,
\* the empty spans included.
C8_DotStarCount ==
    (regex = RegexDotStar /\ pc = "done") =>
        /\ 2 * Len(output) = (Len(text) + 1) * (Len(text) + 2)
        /\ \A i, j \in 0 .. Len(text) :
               i <= j => \E k \in DOMAIN output :
                             output[k][MatchId] = << CharIndexPos(text, i),
                                                     CharIndexPos(text, j) >>

\* C8, witness: .* has been enumerated over a text of two code points.
C8_Witness ==
    regex = RegexDotStar /\ pc = "done" /\ Len(text) = 2 /\ Len(output) = 6

\* C9: over the empty text, for a regex whose language contains the empty
\* word, the enumeration ends having yielded exactly one Mapping, which
\* binds `match` and every other variable it binds to [0, 0).
C9_EmptyText ==
    (text = << >> /\ Ended /\ AcceptsEmpty) =>
        /\ pc = "done"
        /\ Len(output) = 1
        /\ MatchId \in DOMAIN output[1]
        /\ \A var \in DOMAIN output[1] : output[1][var] = << 0, 0 >>

\* The range <<kind, m, n>> accepts k copies.
RepAccepts(r, k) ==
    IF r[1] = "Exactly" THEN k = r[2]
    ELSE IF r[1] = "AtLeast" THEN k >= r[2]
    ELSE r[2] <= k /\ k <= r[3]

\* C10: is_match on ^a{m}$, ^a{m,}$, ^a{m,n}$ and the text a^k holds iff
\* k = m, k >= m, m <= k <= n respectively.
C10_RepetitionCounts ==
    \A r \in RepRanges :
        regex = RepPattern(r[1], r[2], r[3]) =>
            /\ pc # "panic"
            /\ output # << >> => RepAccepts(r, Len(text))
            /\ pc = "done" => (output # << >> <=> RepAccepts(r, Len(text)))

---------------------------------------------------------------------------
(* The pattern `a` under the four anchorings, over texts that hold         *)
(* newlines.                                                               *)

\* a$
RegexAEnd == << "a", "$" >>
\* ^a$
RegexBeginAEnd == << "^", "a", "$" >>

AlphabetLines == { CodePoint["a"], CodePoint["b"], 10 }

InputsAnchors ==
    { RegexA, RegexBeginA, RegexAEnd, RegexBeginAEnd }
        \X SeqsUpTo(AlphabetLines, MaxTextLen)

InitAnchors == InitWith(InputsAnchors)

SpecAnchors == InitAnchors /\ [][Next]_vars

\* The spans of `match` the pattern `a` has over the text: one per `a`,
\* at offset 0 only under ^, ending the text only under $.
AnchoredSpans ==
    { << CharIndexPos(text, i - 1), CharIndexPos(text, i) >> :
        i \in { k \in DOMAIN text :
                  /\ text[k] = CodePoint["a"]
                  /\ regex[1] = "^" => k = 1
                  /\ regex[Len(regex)] = "$" => k = Len(text) } }

\* C11: the enumeration of `a`, `^a`, `a$`, `^a$` never panics and, once
\* ended, has yielded as spans of `match` exactly the occurrences of a in
\* the text (whatever characters, newlines included, stand before and
\* after), restricted to offset 0 when the pattern begins with ^ and to the
\* occurrences ending the text when it ends with $.
C11_MatchSpans ==
    /\ pc # "panic"
    /\ \A k \in DOMAIN output : output[k][MatchId] \in AnchoredSpans
    /\ pc = "done" => { output[k][MatchId] : k \in DOMAIN output } = AnchoredSpans

\* C11, witness: `a` found between two newlines.
C11_Witness ==
    /\ pc = "done"
    /\ regex = RegexA
    /\ text = << 10, CodePoint["a"], 10 >>
    /\ \E k \in DOMAIN output : output[k][MatchId] = << 1, 2 >>

\* The ids of the variables the automaton names `match`.
MatchIds ==
    { automaton.transitions[k][2].marker.var.id :
        k \in { i \in DOMAIN automaton.transitions :
                  /\ automaton.transitions[i][2].kind = "Assignation"
                  /\ automaton.transitions[i][2].marker.var.name
                       = << "m", "a", "t", "c", "h" >> } }

\* C12: every Mapping the enumeration has yielded binds the variable named
\* `match` (from_markers gives an entry only to a variable whose Open and
\* Close events are both present).
C12_BindsMatch ==
    \A k \in DOMAIN output : \E id \in MatchIds : id \in DOMAIN output[k]

\* C12, witness: an ended enumeration that yielded two Mappings binding
\* `match` and one more variable each.
C12_Witness ==
    /\ pc = "done"
    /\ regex = RegexTwoGroups
    /\ Len(output) = 2
    /\ \A k \in DOMAIN output : Cardinality(DOMAIN output[k]) = 2

---------------------------------------------------------------------------
(* The level-DAG: the product of the automaton and the text.  Its vertices *)
(* are the pairs (layer, state), layer in 0 .. Len(text); an Atom edge     *)
(* goes from (l, s) to (l + 1, t) where a transition s -> t carries an     *)
(* atom matching the character of index l; a Marker edge goes from (l, s)  *)
(* to (l, t) where a transition s -> t carries a marker.                   *)

\* The states an Atom edge matching the char x reaches from the states S.
AtomTargets(S, x) ==
    { automaton.transitions[k][3] :
        k \in { i \in DOMAIN automaton.transitions :
                  /\ automaton.transitions[i][1] \in S
                  /\ automaton.transitions[i][2].kind = "Atom"
                  /\ is_match(automaton.transitions[i][2].atom, x) } }

\* The states a Marker edge reaches from the states S.
MarkerTargets(S) ==
    { automaton.transitions[k][3] :
        k \in { i \in DOMAIN automaton.transitions :
                  /\ automaton.transitions[i][1] \in S
                  /\ automaton.transitions[i][2].kind = "Assignation" } }

\* The states Marker edges reach from S in any number of steps, S included.
RECURSIVE MarkerClosure(_)
MarkerClosure(S) ==
    IF MarkerTargets(S) \subseteq S THEN S ELSE MarkerClosure(S \cup MarkerTargets(S))

\* The states s such that a DAG path goes from (0, initial) to (l, s).
RECURSIVE DagLayer(_)
DagLayer(l) ==
    IF l = 0 THEN MarkerClosure({ get_initial })
    ELSE MarkerClosure(AtomTargets(DagLayer(l - 1), text[l]))

\* The pairs (layer, vertex) registered in the level-set of a Jump.
Registered(j) ==
    { key \in DOMAIN j.levelset.vertex_index : has_level(j.levelset, key[1]) }

\* The values of the Jump after each clean_level call of the loop
\* `for level in ((curr_level - depth + 1)..=curr_level).rev()`.
RECURSIVE CleanLevelsCalls(_, _, _, _)
CleanLevelsCalls(j, level, lowest, jump_adj) ==
    IF level < lowest \/ j.abort THEN {}
    ELSE LET cleaned == clean_level(j, level, jump_adj).jump
         IN  {cleaned} \cup CleanLevelsCalls(cleaned, level - 1, lowest, jump_adj)

\* The Jump after the init_next_level call of the turn of
\* IndexedDag::compile that comes next: pc = "indexing".
StepNextLevel ==
    init_next_level(jump,
                    get_adj_for_char(automaton, text[curr_level + 1]).adj_for_char[text[curr_level + 1]],
                    automaton.closure_for_assignations)

\* The values of the Jump after each init_next_level and clean_level call
\* of the turn of IndexedDag::compile that comes next, if one does.
StepCalls ==
    IF pc # "indexing" \/ curr_level >= Len(text) THEN {}
    ELSE { StepNextLevel } \cup
         (IF curr_level > 0 /\ ~StepNextLevel.abort
          THEN CleanLevelsCalls(StepNextLevel, curr_level,
                                curr_level - LowestBit(curr_level) + 1,
                                automaton.closure_for_assignations)
          ELSE {})

\* The values the Jump takes: after Jump::new and after each call.  The
\* enumeration reads the Jump and leaves it as IndexedDag::compile built it.
JumpCalls ==
    IF pc \in { "indexing", "indexed" } THEN { j \in {jump} \cup StepCalls : ~j.abort }
    ELSE {}

\* C14: after any sequence of init_next_level and clean_level calls, every
\* vertex (l, v) registered in the level-set of the Jump is the end of a
\* path of the level-DAG that starts at (0, initial).
C14_RegisteredReachable ==
    \A j \in JumpCalls : \A key \in Registered(j) :
        key[1] <= Len(text) /\ key[2] \in DagLayer(key[1])

\* The states s such that a DAG path goes from a vertex (from, u), u in S,
\* to (to, s): from <= to <= Len(text).
RECURSIVE DagTargets(_, _, _)
DagTargets(S, from, to) ==
    IF to = from THEN MarkerClosure(S)
    ELSE MarkerClosure(AtomTargets(DagTargets(S, from, to - 1), text[to]))

\* The stored matrices of a Jump whose two layers are in the level-set.
StoredReach(j) ==
    { key \in DOMAIN j.reach :
        has_level(j.levelset, key[1]) /\ has_level(j.levelset, key[2]) }

\* C15: after any sequence of init_next_level and clean_level calls, an
\* entry (i, j) of a stored matrix reach[(l', l)] is true iff a DAG path
\* goes from the i-th vertex of layer l' to the j-th vertex of layer l.
C15_ReachIffPath ==
    \A j \in JumpCalls : \A key \in StoredReach(j) :
        \A row \in DOMAIN get_level(j.levelset, key[1]) :
        \A col \in DOMAIN get_level(j.levelset, key[2]) :
            /\ InMatrix(j.reach[key], row - 1, col - 1)
            /\ key[2] <= Len(text)
            /\ Cell(j.reach[key], row - 1, col - 1)
                 <=> get_level(j.levelset, key[2])[col]
                        \in DagTargets({ get_level(j.levelset, key[1])[row] }, key[1], key[2])

\* A DAG path goes from (from, u) to (to, v) through (l, w).
DagPathThrough(from, u, l, w, to, v) ==
    /\ w \in DagTargets({u}, from, l)
    /\ v \in DagTargets({w}, l, to)

\* The result `res` of jump(level, gamma) on the Jump j: res.level <= level,
\* and no DAG path from a vertex of res.gamma to a vertex of `ends` goes
\* through a vertex flagged in nonjump_vertices of a layer strictly between
\* res.level and level.
JumpsOverNoMarker(j, level, ends, res) ==
    /\ res.ok
    /\ res.level <= level
    /\ \A u \in Range(res.gamma), v \in ends :
       \A key \in j.nonjump_vertices :
           (res.level < key[1] /\ key[1] < level)
               => ~DagPathThrough(res.level, u, key[1], key[2], level, v)

\* The vertices of gamma that have a jump level: jl.get(&(level, vertex))
\* is Some for the vertices an Atom edge reached.
WithJumpLevel(j, level, gamma) == { v \in gamma : << level, v >> \in DOMAIN j.jl }

\* C16 as stated: for any layer `level` of the level-set and any set gamma
\* of its vertices, jump(level, gamma) returns a layer l* <= level, and no
\* DAG path from a returned vertex to a vertex of gamma passes through a
\* non-jumpable vertex of a layer strictly between l* and level.
C16_Stated ==
    \A j \in JumpCalls : \A level \in DOMAIN j.levelset.levels :
        \A gamma \in SUBSET Range(get_level(j.levelset, level)) :
            JumpsOverNoMarker(j, level, gamma, jump_to(j, level, gamma))

\* C16: jump(level, gamma) returns a layer l* <= level, and no DAG path
\* from a returned vertex to a vertex of gamma that has a jump level (one an
\* Atom edge reached) passes through a non-jumpable vertex of a layer
\* strictly between l* and level.
C16_JumpInvariant ==
    \A j \in JumpCalls : \A level \in DOMAIN j.levelset.levels :
        \A gamma \in SUBSET Range(get_level(j.levelset, level)) :
            JumpsOverNoMarker(j, level, WithJumpLevel(j, level, gamma),
                              jump_to(j, level, gamma))

\* A jump from layer 3 to layer 0 over two layers that hold non-jumpable
\* vertices, for a gamma whose vertices all have a jump level.
C16_Witness ==
    /\ pc = "indexed"
    /\ has_level(jump.levelset, 3)
    /\ \E gamma \in SUBSET Range(get_level(jump.levelset, 3)) :
           /\ gamma # {}
           /\ WithJumpLevel(jump, 3, gamma) = gamma
           /\ jump_to(jump, 3, gamma).ok
           /\ jump_to(jump, 3, gamma).level = 0
           /\ jump_to(jump, 3, gamma).gamma # << >>
           /\ \E key \in jump.nonjump_vertices \cap Registered(jump) : key[1] \in { 1, 2 }

\* The layer of the level-DAG that follows the layer `prev` of index l: the
\* Marker closure of the targets of the Atom edges matching the character
\* of index l.
DagNextLayer(prev, l) == MarkerClosure(AtomTargets(prev, text[l + 1]))

\* The vertices of the layer `level` of the Jump j are those of `layer`,
\* and the flagged ones are those a Marker edge introduced.
LayerIs(j, level, layer) ==
    /\ layer = {} => ~has_level(j.levelset, level)
    /\ layer # {} =>
           /\ has_level(j.levelset, level)
           /\ Range(get_level(j.levelset, level)) = layer
           /\ \A v \in layer :
                  << level, v >> \in j.nonjump_vertices <=> v \in MarkerTargets(layer)

\* C17: layer 0 is the initial state and the states Marker edges reach
\* from it; the layer i+1 that init_next_level builds is the Marker closure
\* of the targets of the Atom edges matching the character of index i that
\* leave a vertex of layer i; a vertex is flagged non-jumpable iff a Marker
\* edge introduced it.
C17_LayersBuilt ==
    /\ pc \in { "indexing", "indexed", "enumerating", "done" }
           => LayerIs(jump, 0, MarkerClosure({ get_initial }))
    /\ (pc = "indexing" /\ ~StepNextLevel.abort)
           => LayerIs(StepNextLevel, jump.last_level + 1,
                      DagNextLayer(Range(get_level(jump.levelset, jump.last_level)),
                                   jump.last_level))

\* The vertices s of the layer l of the Jump j with an Atom edge, matching
\* the character of index l, from (l, s) to (l + 1, t).
AtomPredecessors(j, l, t) ==
    { s \in Range(get_level(j.levelset, l)) : t \in AtomTargets({ s }, text[l + 1]) }

\* What the Atom edge from (l, s) gives to the jump level of its target:
\* l when (l, s) is non-jumpable, jl[(l, s)] otherwise.
JumpLevelFrom(j, l, s) ==
    IF << l, s >> \in j.nonjump_vertices THEN l ELSE j.jl[<< l, s >>]

\* The layer jump.last_level + 1 that the next init_next_level call builds
\* has the jump levels of the recurrence, and the recurrence finds the jump
\* level of every jumpable predecessor.
JumpLevelsBuilt ==
    (pc = "indexing" /\ ~StepNextLevel.abort /\ StepNextLevel.last_level = jump.last_level + 1)
        => \A t \in AtomTargets(Range(get_level(jump.levelset, jump.last_level)),
                                text[jump.last_level + 1]) :
               /\ \A s \in AtomPredecessors(jump, jump.last_level, t) :
                      << jump.last_level, s >> \notin jump.nonjump_vertices
                          => << jump.last_level, s >> \in DOMAIN jump.jl
               /\ << jump.last_level + 1, t >> \in DOMAIN StepNextLevel.jl
               /\ StepNextLevel.jl[<< jump.last_level + 1, t >>]
                      = Max({ JumpLevelFrom(jump, jump.last_level, s) :
                                s \in AtomPredecessors(jump, jump.last_level, t) })

\* C18 as stated: every vertex of layer 0 has jl = 0, and the layer l + 1
\* that init_next_level builds has, for every vertex t an Atom edge reaches,
\* jl[(l + 1, t)] the maximum over the Atom predecessors (l, s) of t of l
\* when (l, s) is non-jumpable and of jl[(l, s)] otherwise, the lookup of
\* jl[(l, s)] never failing.
C18_Stated ==
    /\ pc \in { "indexing", "indexed", "enumerating", "done" }
           => \A v \in Range(get_level(jump.levelset, 0)) :
                  << 0, v >> \in DOMAIN jump.jl /\ jump.jl[<< 0, v >>] = 0
    /\ JumpLevelsBuilt

\* C18: the initial state has jl = 0 and the other vertices of layer 0,
\* which Marker edges introduced, have no jl entry; the layer l + 1 that
\* init_next_level builds has the jump levels of the recurrence, the lookup
\* of jl[(l, s)] for a jumpable predecessor never failing.
C18_JumpLevels ==
    /\ pc \in { "indexing", "indexed", "enumerating", "done" }
           => \A v \in Range(get_level(jump.levelset, 0)) :
                  IF v = get_initial
                  THEN << 0, v >> \in DOMAIN jump.jl /\ jump.jl[<< 0, v >>] = 0
                  ELSE /\ << 0, v >> \notin DOMAIN jump.jl
                       /\ << 0, v >> \in jump.nonjump_vertices
    /\ JumpLevelsBuilt

\* A layer l + 1, l >= 1, is built where a vertex t has a non-jumpable Atom
\* predecessor and a jumpable one whose jump level is below l.
C18_Witness ==
    /\ pc = "indexing"
    /\ ~StepNextLevel.abort
    /\ StepNextLevel.last_level = jump.last_level + 1
    /\ jump.last_level >= 1
    /\ \E t \in Range(get_level(StepNextLevel.levelset, jump.last_level + 1)) :
       \E s1, s2 \in AtomPredecessors(jump, jump.last_level, t) :
           /\ << jump.last_level, s1 >> \in jump.nonjump_vertices
           /\ << jump.last_level, s2 >> \notin jump.nonjump_vertices
           /\ jump.jl[<< jump.last_level, s2 >>] < jump.last_level
           /\ StepNextLevel.jl[<< jump.last_level + 1, t >>] = jump.last_level

\* The vertices u of the layer `from` of the Jump j for which a vertex v of
\* gamma has reach[(from, level)][index(u), index(v)] true.
ReachSet(j, from, level, gamma) ==
    { u \in Range(get_level(j.levelset, from)) :
        \E v \in gamma :
            Cell(j.reach[<< from, level >>], get_vertex_index(j.levelset, from, u),
                 get_vertex_index(j.levelset, level, v)) }

\* jump(level, gamma) on the Jump j is what the maximum of the jump levels
\* of the vertices `known` of gamma makes it: (level, empty) when `known` is
\* empty or the maximum is level, else the maximum and its ReachSet.
JumpIs(j, level, gamma, known) ==
    IF known = {}
    THEN jump_to(j, level, gamma) = [ ok |-> TRUE, level |-> level, gamma |-> << >> ]
    ELSE IF Max({ j.jl[<< level, v >>] : v \in known }) = level
    THEN jump_to(j, level, gamma) = [ ok |-> TRUE, level |-> level, gamma |-> << >> ]
    ELSE /\ jump_to(j, level, gamma).ok
         /\ jump_to(j, level, gamma).level = Max({ j.jl[<< level, v >>] : v \in known })
         /\ Range(jump_to(j, level, gamma).gamma)
                = ReachSet(j, Max({ j.jl[<< level, v >>] : v \in known }), level, gamma)

\* C19 as stated: jump(level, gamma) returns (level, empty) when gamma is
\* empty or the maximum of jl[(level, v)] over the vertices v of gamma is
\* level; otherwise it returns that maximum l* and the vertices u of layer
\* l* for which some v in gamma has reach[(l*, level)][index(u), index(v)].
C19_Stated ==
    \A j \in JumpCalls : \A level \in DOMAIN j.levelset.levels :
        \A gamma \in SUBSET Range(get_level(j.levelset, level)) :
            /\ \A v \in gamma : << level, v >> \in DOMAIN j.jl
            /\ JumpIs(j, level, gamma, gamma)

\* C19: the maximum is taken over the vertices of gamma that have a jl
\* entry, and jump(level, gamma) returns (level, empty) also when no vertex
\* of gamma has one; otherwise as stated.
C19_JumpResult ==
    \A j \in JumpCalls : \A level \in DOMAIN j.levelset.levels :
        \A gamma \in SUBSET Range(get_level(j.levelset, level)) :
            JumpIs(j, level, gamma, WithJumpLevel(j, level, gamma))

\* jump is called on a gamma holding two vertices of different jump levels
\* and a vertex without one, and returns a part of the layer it jumps to.
C19_Witness ==
    /\ pc = "indexed"
    /\ \E level \in DOMAIN jump.levelset.levels :
       \E gamma \in SUBSET Range(get_level(jump.levelset, level)) :
           /\ \E v1, v2 \in WithJumpLevel(jump, level, gamma) :
                  jump.jl[<< level, v1 >>] < jump.jl[<< level, v2 >>]
           /\ WithJumpLevel(jump, level, gamma) # gamma
           /\ jump_to(jump, level, gamma).ok
           /\ jump_to(jump, level, gamma).level < level
           /\ jump_to(jump, level, gamma).gamma # << >>
           /\ Range(jump_to(jump, level, gamma).gamma)
                  # Range(get_level(jump.levelset, jump_to(jump, level, gamma).level))

\* The matrix reach[(from, level)] of the Jump j is stored with one row for
\* each vertex of the layer `from` and one column for each vertex of the
\* layer `level`.
ReachStored(j, from, level) ==
    /\ has_level(j.levelset, from)
    /\ << from, level >> \in DOMAIN j.reach
    /\ j.reach[<< from, level >>].height = Len(get_level(j.levelset, from))
    /\ j.reach[<< from, level >>].width = Len(get_level(j.levelset, level))
    /\ Len(j.reach[<< from, level >>].data)
           = Len(get_level(j.levelset, from)) * Len(get_level(j.levelset, level))

\* C20: after any sequence of init_next_level and clean_level calls, for
\* every layer l of the level-set and every l' in rlevel[l], the layer l' is
\* in the level-set and reach[(l', l)] is stored with |L[l']| rows and
\* |L[l]| columns; jump looks up no missing layer, no missing matrix and no
\* cell out of range.
C20_ReachShape ==
    \A j \in JumpCalls : \A level \in DOMAIN j.levelset.levels :
        /\ level \in DOMAIN j.rlevel
        /\ \A from \in j.rlevel[level] : ReachStored(j, from, level)
        /\ \A gamma \in SUBSET Range(get_level(j.levelset, level)) :
               jump_to(j, level, gamma).ok

\* A layer that clean_level has shortened keeps a matrix to a layer that is
\* not the one below it.
C20_Witness ==
    /\ pc = "indexed"
    /\ \E level \in DOMAIN jump.levelset.levels :
           /\ level <= Len(text)
           /\ Len(get_level(jump.levelset, level)) < Cardinality(DagLayer(level))
           /\ \E from \in jump.rlevel[level] :
                  /\ from < level - 1
                  /\ \E k \in DOMAIN jump.reach[<< from, level >>].data :
                         jump.reach[<< from, level >>].data[k]

---------------------------------------------------------------------------
(* The counters count_ingoing_jumps and the cleaning of the layers.        *)

\* The true entries of the row of the vertex v of layer `from` in the
\* matrices reach[(from, l)] of the Jump j, l over the layers with `from`
\* in rlevel[l]: the pairs <<l, column>>.
IngoingJumps(j, from, v) ==
    { lc \in (DOMAIN j.rlevel) \X (0 .. (automaton.nb_states - 1)) :
        /\ from \in j.rlevel[lc[1]]
        /\ << from, lc[1] >> \in DOMAIN j.reach
        /\ lc[2] < j.reach[<< from, lc[1] >>].width
        /\ InMatrix(j.reach[<< from, lc[1] >>], get_vertex_index(j.levelset, from, v), lc[2])
        /\ Cell(j.reach[<< from, lc[1] >>], get_vertex_index(j.levelset, from, v), lc[2]) }

\* The pairs <<before, after>> of the clean_level calls of the loop
\* `for level in ((curr_level - depth + 1)..=curr_level).rev()` with the
\* level cleaned: <<before, after, level>>.
RECURSIVE CleanLevelsPairs(_, _, _, _)
CleanLevelsPairs(j, level, lowest, jump_adj) ==
    IF level < lowest \/ j.abort THEN {}
    ELSE { << j, clean_level(j, level, jump_adj).jump, level >> }
         \cup CleanLevelsPairs(clean_level(j, level, jump_adj).jump, level - 1, lowest, jump_adj)

\* The clean_level calls of the turn of IndexedDag::compile that comes next.
StepCleanings ==
    IF pc # "indexing" \/ curr_level >= Len(text) \/ curr_level = 0 \/ StepNextLevel.abort
    THEN {}
    ELSE CleanLevelsPairs(StepNextLevel, curr_level, curr_level - LowestBit(curr_level) + 1,
                          automaton.closure_for_assignations)

\* C21: after any sequence of init_next_level and clean_level calls, the
\* counter count_ingoing_jumps[(l', v)] of every vertex of the level-set is
\* the number of true entries of the row of v in the matrices reach[(l', l)],
\* l over the layers with l' in rlevel[l]; and clean_level never increments
\* the counter of a vertex.
C21_CountersExact ==
    /\ \A j \in JumpCalls : \A key \in Registered(j) :
           /\ key \in DOMAIN j.count_ingoing_jumps
           /\ j.count_ingoing_jumps[key] = Cardinality(IngoingJumps(j, key[1], key[2]))
    /\ \A call \in StepCleanings : ~call[2].abort =>
           \A key \in Registered(call[2]) :
               call[2].count_ingoing_jumps[key] <= call[1].count_ingoing_jumps[key]

\* The vertices of the layer `level` of the Jump j that are useless: the
\* counter of the vertex is 0, and so is the counter of every vertex of the
\* layer that Marker edges reach from it.
Useless(j, level) ==
    { v \in Range(get_level(j.levelset, level)) :
        \A w \in MarkerClosure({ v }) \cap Range(get_level(j.levelset, level)) :
            j.count_ingoing_jumps[<< level, w >>] = 0 }

\* The vertices of the layer `level` of the Jump j, none if it has none.
LayerSet(j, level) ==
    IF has_level(j.levelset, level) THEN Range(get_level(j.levelset, level)) ELSE {}

\* A clean_level call <<before, after, level>> removes the useless vertices
\* of the layer and no other, leaves layer 0 alone and returns whether it
\* removed a vertex.
CleansUseless(call) ==
    has_level(call[1].levelset, call[3]) =>
        /\ ~call[2].abort
        /\ LayerSet(call[2], call[3]) = LayerSet(call[1], call[3]) \ Useless(call[1], call[3])
        /\ LayerSet(call[2], 0) = LayerSet(call[1], 0)
        /\ clean_level(call[1], call[3], automaton.closure_for_assignations).removed
               <=> Useless(call[1], call[3]) # {}

\* C22: clean_level(level), level >= 1, removes exactly the vertices v of
\* the layer whose counter is 0 as is the counter of every vertex of the
\* layer that Marker edges reach from v; layer 0 is never changed, and the
\* call returns true iff it removed a vertex.
C22_CleanRemovesUseless ==
    /\ \A call \in StepCleanings : call[3] >= 1 /\ CleansUseless(call)
    /\ \A j \in JumpCalls :
           clean_level(j, 0, automaton.closure_for_assignations) = [ jump |-> j, removed |-> FALSE ]

\* A clean_level call removes a part of a layer and keeps a vertex whose
\* counter is 0, for a vertex that a Marker edge reaches from it.
C22_Witness ==
    \E call \in StepCleanings :
        /\ has_level(call[1].levelset, call[3])
        /\ has_level(call[2].levelset, call[3])
        /\ Useless(call[1], call[3]) # {}
        /\ \E v \in LayerSet(call[2], call[3]) :
               call[1].count_ingoing_jumps[<< call[3], v >>] = 0

\* The layer l is gone from the level-set of the Jump j, from the keys and
\* the sets of rlevel and rev_rlevel, and from the keys of reach.
LayerForgotten(j, l) ==
    /\ ~has_level(j.levelset, l)
    /\ l \notin DOMAIN j.rlevel
    /\ l \notin DOMAIN j.rev_rlevel
    /\ \A u \in DOMAIN j.rlevel : l \notin j.rlevel[u]
    /\ \A s \in DOMAIN j.rev_rlevel : l \notin j.rev_rlevel[s]
    /\ \A key \in DOMAIN j.reach : key[1] # l /\ key[2] # l

\* C23: when clean_level removes every vertex of a layer l, afterwards l is
\* absent from the level-set, from the keys of rlevel and rev_rlevel and
\* from every set rlevel[u] and rev_rlevel[s], and no key of reach has l as
\* its first or its second component.
C23_EmptyLayerForgotten ==
    \A call \in StepCleanings :
        (has_level(call[1].levelset, call[3]) /\ ~has_level(call[2].levelset, call[3])
             /\ ~call[2].abort)
            => LayerForgotten(call[2], call[3])

\* The levels clean_level is called on, in the order of the calls, by the
\* loop `for level in ((curr_level - depth + 1)..=curr_level).rev()`.
RECURSIVE CleanLevelsOrder(_, _, _, _)
CleanLevelsOrder(j, level, lowest, jump_adj) ==
    IF level < lowest \/ j.abort THEN << >>
    ELSE << level >>
         \o CleanLevelsOrder(clean_level(j, level, jump_adj).jump, level - 1, lowest, jump_adj)

\* The levels cleaned, in order, by the turn of IndexedDag::compile that
\* comes next: none where curr_level is 0 (`if curr_level > 0`).
StepCleanedLevels ==
    IF curr_level > 0 /\ ~StepNextLevel.abort
    THEN CleanLevelsOrder(StepNextLevel, curr_level, curr_level - LowestBit(curr_level) + 1,
                          automaton.closure_for_assignations)
    ELSE << >>

\* The Jump at the end of the turn of IndexedDag::compile that comes next.
StepJump ==
    IF curr_level > 0 /\ ~StepNextLevel.abort
    THEN CleanLevels(StepNextLevel, curr_level, curr_level - LowestBit(curr_level) + 1,
                     automaton.closure_for_assignations)
    ELSE StepNextLevel

\* The largest power of two that divides l >= 1.
LargestPowerOfTwo(l) ==
    Max({ d \in 1 .. l : l % d = 0 /\ \E k \in 0 .. l : d = 2 ^ k })

\* C24: the turn of IndexedDag::compile whose counter curr_level is l >= 1
\* calls clean_level once on each of the levels l, l - 1, .., l - d + 1, in
\* that order, d the largest power of two dividing l; the turn of counter 0
\* cleans nothing; and no turn cleans the layer that the init_next_level
\* call of the turn after it reads.
C24_CleaningSchedule ==
    (pc = "indexing" /\ curr_level < Len(text)) =>
        /\ curr_level = 0 => StepCleanedLevels = << >>
        /\ curr_level >= 1 =>
               /\ Len(StepCleanedLevels) = LargestPowerOfTwo(curr_level)
               /\ \A k \in DOMAIN StepCleanedLevels :
                      StepCleanedLevels[k] = curr_level - k + 1
        /\ (~StepJump.abort /\ ~is_disconnected(StepJump) /\ curr_level + 1 < Len(text))
               => StepJump.last_level \notin Range(StepCleanedLevels)

\* The turn of counter 2 cleans the levels 2 and 1 and leaves the last
\* layer in place.
C24_Witness ==
    /\ pc = "indexing"
    /\ curr_level = 2
    /\ StepCleanedLevels = << 2, 1 >>
    /\ ~is_disconnected(StepJump)

---------------------------------------------------------------------------
(* The expansion of one level by NextLevelIterator.                        *)

\* The pairs <<S+, gamma2>> that the calls of NextLevelIterator::next
\* return from the iterator nl on, until it returns None or panics.
RECURSIVE NextLevelAll(_, _)
NextLevelAll(dag_automaton, nl) ==
    LET res == NextLevelNext(dag_automaton, nl)
    IN  IF ~res.ok \/ ~res.some THEN << >>
        ELSE << << res.s_p, res.gamma2 >> >> \o NextLevelAll(dag_automaton, res.nl)

\* The pairs of the sequence `emitted` have gamma2 non-empty and S+ a subset
\* of the markers K, and no two of them have the same S+.
Witnessed(emitted, K) ==
    /\ \A k \in DOMAIN emitted : emitted[k][2] # {} /\ emitted[k][1] \subseteq K
    /\ \A k1, k2 \in DOMAIN emitted : k1 # k2 => emitted[k1][1] # emitted[k2][1]

\* The vertices of the set G of the layer `level` of the Jump j, listed in
\* the order of the layer.
StartSeq(j, level, G) == SelectSeq(get_level(j.levelset, level), LAMBDA v : v \in G)

\* C25: for every non-empty set gamma of vertices of a layer of the index
\* and every order of its HashSet K, every pair (S+, gamma2) that the
\* expansion emits has gamma2 non-empty and S+ a subset of K, and no two
\* pairs of the expansion have the same S+.
C25_WitnessedBranches ==
    pc = "indexed" =>
        \A level \in DOMAIN jump.levelset.levels :
        \A G \in (SUBSET Range(get_level(jump.levelset, level))) \ { {} } :
        \A em \in Perms(next_level_markers(automaton, StartSeq(jump, level, G)).k) :
            Witnessed(NextLevelAll(automaton, explore(em, StartSeq(jump, level, G))), Range(em))

\* An expansion emits three pairs, one of them with S+ empty.
C25_Witness ==
    /\ pc = "indexed"
    /\ \E level \in DOMAIN jump.levelset.levels :
       \E G \in (SUBSET Range(get_level(jump.levelset, level))) \ { {} } :
       \E em \in Perms(next_level_markers(automaton, StartSeq(jump, level, G)).k) :
           /\ Len(NextLevelAll(automaton, explore(em, StartSeq(jump, level, G)))) >= 3
           /\ \E k \in 1 .. 3 :
                  NextLevelAll(automaton, explore(em, StartSeq(jump, level, G)))[k][1] = {}


----------------------------------------------------------------------------
(* NextLevelIterator::follow_sp_sm against the Marker paths of the layer   *)

\* One step backwards along the Marker edges from the pairs
\* <<vertex, markers of S+ used>> of `found`: the edges of a marker of S-
\* are not followed, and the path stays among the vertices of `layer`.
FollowBack(found, layer, s_p, s_m) ==
    found \cup
    UNION { { << edge[2], su[2] \cup ({ get_marker(edge[1]).key } \cap s_p) >> :
                edge \in { e \in Range(automaton.rev_assignations[su[1]]) :
                             /\ e[2] \in layer
                             /\ get_marker(e[1]).key \notin s_m } } :
            su \in found }

RECURSIVE FollowClosure(_, _, _, _)
FollowClosure(found, layer, s_p, s_m) ==
    LET more == FollowBack(found, layer, s_p, s_m)
    IN  IF more = found THEN found ELSE FollowClosure(more, layer, s_p, s_m)

\* The vertices of `layer` from which a Marker path inside the layer leads
\* to a vertex of gamma, uses every marker of S+ and no marker of S-.
FollowPaths(layer, gamma, s_p, s_m) ==
    { su[1] : su \in { x \in FollowClosure({ << v, {} >> : v \in gamma \cap layer },
                                           layer, s_p, s_m) : x[2] = s_p } }

\* The pairs (S+, S-) NextLevelIterator::next can hand to follow_sp_sm:
\* the partitions of a prefix of expected_markers.
FollowArguments(expected_markers) ==
    UNION { { << s_p, Range(SubSeq(expected_markers, 1, depth)) \ s_p >> :
                s_p \in SUBSET Range(SubSeq(expected_markers, 1, depth)) } :
            depth \in 0 .. Len(expected_markers) }

\* C26: during an enumeration, for every pair (S+, S-) the current
\* NextLevelIterator can hand to follow_sp_sm, follow_sp_sm on gamma returns
\* without a panic exactly the vertices of the current layer from which a
\* Marker path inside the layer leads to gamma, uses every marker of S+ and
\* none of S-, and it returns the same set for every order of gamma.
C26_FollowExact ==
    pc = "enumerating" =>
        \A sps \in FollowArguments(curr_next_level.expected_markers) :
        \A order \in Perms(Range(curr_next_level.gamma)) :
            LET res == follow_sp_sm(automaton, order, sps[1], sps[2])
            IN  /\ res.ok
                /\ res.gamma2 = FollowPaths(LayerSet(jump, it_level),
                                            Range(curr_next_level.gamma),
                                            sps[1], sps[2])

----------------------------------------------------------------------------
(* LocalLang::concatenation inside LocalLang::from_hir                      *)

\* The Concat nodes of a Hir, each with the id_offset LocalLang::from_hir
\* is called with on it.
RECURSIVE ConcatNodes(_, _)
ConcatNodes(hir, id_offset) ==
    CASE hir.kind \in { "Empty", "Label" } -> {}
      [] hir.kind \in { "Concat", "Alternation" } ->
           (IF hir.kind = "Concat" THEN { << hir, id_offset >> } ELSE {})
           \cup ConcatNodes(hir.h1, id_offset)
           \cup ConcatNodes(hir.h2, id_offset + from_hir(hir.h1, id_offset).nb_terms)
      [] hir.kind \in { "Option", "Closure" } -> ConcatNodes(hir.h, id_offset)

\* The ids of the terms a local language mentions.
TermIds(lang) ==
    { term.id : term \in Range(lang.p) \cup Range(lang.d) }
    \cup UNION { { pair[1].id, pair[2].id } : pair \in Range(lang.f) }

\* The local language of Concat(h1, h2) built at id_offset is the stated
\* combination of the local languages of h1 and h2.
ConcatenationHolds(hir, id_offset) ==
    LET lang1 == from_hir(hir.h1, id_offset)
        lang2 == from_hir(hir.h2, id_offset + lang1.nb_terms)
        lang == from_hir(hir, id_offset)
    IN  /\ Range(lang.p) = Range(lang1.p) \cup (IF lang1.g THEN Range(lang2.p) ELSE {})
        /\ Range(lang.d) = Range(lang2.d) \cup (IF lang2.g THEN Range(lang1.d) ELSE {})
        /\ Range(lang.f) = Range(lang1.f) \cup Range(lang2.f)
                           \cup (Range(lang1.d) \X Range(lang2.p))
        /\ lang.g = (lang1.g /\ lang2.g)
        /\ lang.nb_terms = lang1.nb_terms + lang2.nb_terms
        /\ TermIds(lang1) \subseteq id_offset .. (id_offset + lang1.nb_terms - 1)
        /\ TermIds(lang2) \subseteq (id_offset + lang1.nb_terms)
                                    .. (id_offset + lang.nb_terms - 1)
        /\ TermIds(lang1) \cap TermIds(lang2) = {}

\* C27: once a regex is compiled, at every Concat node of its Hir the local
\* language is P = P1 plus P2 only when G1 holds, D = D2 plus D1 only when
\* G2 holds, F = F1, F2 and the pairs D1 x P2, G = G1 and G2, and the term
\* ids of the second language lie above those of the first.
C27_Concatenation ==
    pc = "compiled" =>
        \A node \in ConcatNodes(from_regex(reformat(regex)).hir, 0) :
            ConcatenationHolds(node[1], node[2])

\* A compiled regex with a Concat node whose first language accepts the
\* empty word (P2 is added), one whose second language does (D1 is added),
\* one where neither list is added, and one with pairs D1 x P2.
C27_Witness ==
    /\ pc = "compiled"
    /\ \E node \in ConcatNodes(from_regex(reformat(regex)).hir, 0) :
           /\ from_hir(node[1].h1, node[2]).g
           /\ from_hir(node[1].h2, node[2] + from_hir(node[1].h1, node[2]).nb_terms).p # << >>
    /\ \E node \in ConcatNodes(from_regex(reformat(regex)).hir, 0) :
           /\ from_hir(node[1].h2, node[2] + from_hir(node[1].h1, node[2]).nb_terms).g
           /\ from_hir(node[1].h1, node[2]).d # << >>
    /\ \E node \in ConcatNodes(from_regex(reformat(regex)).hir, 0) :
           /\ ~from_hir(node[1].h1, node[2]).g
           /\ ~from_hir(node[1].h2, node[2] + from_hir(node[1].h1, node[2]).nb_terms).g
           /\ from_hir(node[1].h1, node[2]).d # << >>
           /\ from_hir(node[1].h2, node[2] + from_hir(node[1].h1, node[2]).nb_terms).p # << >>


----------------------------------------------------------------------------
(* mapping::levelset::LevelSet on its own: any sequence of register and    *)
(* remove_from_level calls on a new LevelSet, held in jump.levelset.        *)

\* The layers given to a LevelSet on its own: the calls on one layer leave
\* the other layers as they are, two layers show it.
LevelSetLayers == { 0, 1 }

InitLevelSet ==
    /\ regex = << >>
    /\ text = << >>
    /\ pc = "levelset"
    /\ automaton = NoAutomaton
    /\ jump = [ NoJump EXCEPT !.levelset = LevelSetNew ]
    /\ offsets = << >>
    /\ curr_level = 0
    /\ dead_calls = 0
    /\ dead = FALSE
    /\ stack = << >>
    /\ it_level = 0
    /\ curr_mapping = << >>
    /\ curr_next_level = NextLevelEmpty
    /\ output = << >>

\* pc after LevelSet::new and after a call that returned.
LevelSetReady == { "levelset", "registered", "removed" }

\* A call of LevelSet::register.
Register ==
    /\ pc \in LevelSetReady
    /\ \E level \in LevelSetLayers, vertex \in 0 .. MaxVertex :
           jump' = [ jump EXCEPT !.levelset = register(@, level, vertex) ]
    /\ pc' = "registered"
    /\ UNCHANGED << regex, text, automaton, offsets, curr_level, dead_calls, dead >>
    /\ UNCHANGED iter_vars

\* A call of LevelSet::remove_from_level; `&self.levels[&level]` panics
\* where the level is not stored.
RemoveFromLevel ==
    /\ pc \in LevelSetReady
    /\ \E level \in LevelSetLayers, del_vertices \in SUBSET (0 .. MaxVertex) :
           IF has_level(jump.levelset, level)
           THEN /\ jump' = [ jump EXCEPT
                               !.levelset = remove_from_level(@, level, del_vertices) ]
                /\ pc' = "removed"
           ELSE /\ jump' = jump
                /\ pc' = "panic"
    /\ UNCHANGED << regex, text, automaton, offsets, curr_level, dead_calls, dead >>
    /\ UNCHANGED iter_vars

NextLevelSet == Register \/ RemoveFromLevel

SpecLevelSet == InitLevelSet /\ [][NextLevelSet]_vars

\* Every stored layer is non-empty and without duplicates, and
\* vertex_index[(l, v)] = i exactly when levels[l][i] = v.
LevelSetIndexed(ls) ==
    /\ \A l \in DOMAIN ls.levels :
           /\ ls.levels[l] # << >>
           /\ \A i, k \in DOMAIN ls.levels[l] : ls.levels[l][i] = ls.levels[l][k] => i = k
    /\ \A l \in LevelSetLayers, v \in 0 .. MaxVertex, i \in 0 .. MaxVertex :
           (<< l, v >> \in DOMAIN ls.vertex_index /\ ls.vertex_index[<< l, v >>] = i)
           <=> (l \in DOMAIN ls.levels /\ i + 1 \in DOMAIN ls.levels[l]
                /\ ls.levels[l][i + 1] = v)
    /\ DOMAIN ls.vertex_index \subseteq LevelSetLayers \X (0 .. MaxVertex)
    /\ \A lv \in DOMAIN ls.vertex_index : ls.vertex_index[lv] \in 0 .. MaxVertex

\* remove_from_level(level, del_vertices) leaves in the layer the survivors
\* in their previous relative order, numbered from 0, deletes a layer left
\* empty, and keeps the other layers.
RemoveRenumbers(ls, level, del_vertices) ==
    LET survivors == SelectSeq(ls.levels[level], LAMBDA v : v \notin del_vertices)
        after == remove_from_level(ls, level, del_vertices)
    IN  /\ DOMAIN after.levels = IF survivors = << >> THEN DOMAIN ls.levels \ { level }
                                 ELSE DOMAIN ls.levels
        /\ \A l \in DOMAIN after.levels :
               after.levels[l] = IF l = level THEN survivors ELSE ls.levels[l]
        /\ DOMAIN after.vertex_index =
               { lv \in DOMAIN ls.vertex_index : lv[1] # level \/ lv[2] \notin del_vertices }
        /\ \A lv \in DOMAIN after.vertex_index :
               IF lv[1] = level THEN survivors[after.vertex_index[lv] + 1] = lv[2]
               ELSE after.vertex_index[lv] = ls.vertex_index[lv]

\* C28: after any sequence of register and remove_from_level calls on a
\* LevelSet, every stored layer is non-empty and without duplicates and
\* vertex_index gives exactly the positions of the vertices; a register of
\* a stored pair would change nothing, and a remove_from_level of a stored
\* layer would renumber the survivors from 0 in their previous order and
\* delete a layer left empty.
C28_LevelSetSound ==
    pc \in LevelSetReady =>
        /\ LevelSetIndexed(jump.levelset)
        /\ \A lv \in DOMAIN jump.levelset.vertex_index :
               register(jump.levelset, lv[1], lv[2]) = jump.levelset
        /\ \A level \in DOMAIN jump.levelset.levels :
           \A del_vertices \in SUBSET (0 .. MaxVertex) :
               RemoveRenumbers(jump.levelset, level, del_vertices)

\* A remove_from_level has returned and left two layers, one of them with
\* two vertices that are not in increasing order.
C28_Witness ==
    /\ pc = "removed"
    /\ DOMAIN jump.levelset.levels = LevelSetLayers
    /\ \E l \in DOMAIN jump.levelset.levels :
           /\ Len(jump.levelset.levels[l]) = 2
           /\ jump.levelset.levels[l][1] > jump.levelset.levels[l][2]


----------------------------------------------------------------------------
(* The end of an enumeration (IndexedDagIterator::next)                     *)

\* A turn of IndexedDagIterator::next that pushes a frame pushes one frame,
\* with vertices in it and with a level below the level being expanded.
PushesLowerFrame ==
    (pc = "enumerating" /\ Len(stack') > Len(stack)) =>
        /\ Len(stack') = Len(stack) + 1
        /\ SubSeq(stack', 1, Len(stack)) = stack
        /\ stack'[Len(stack')][2] # << >>
        /\ stack'[Len(stack')][1] < it_level

\* The markers of the automaton, and the number of sets S+ a
\* NextLevelIterator can return at most.
AllMarkers ==
    { get_marker(automaton.transitions[k][2]).key :
        k \in { i \in DOMAIN automaton.transitions :
                  automaton.transitions[i][2].kind = "Assignation" } }

Branches == 2 ^ Cardinality(AllMarkers)

\* The pairs (S+, S-) a NextLevelIterator may still visit: a pair of the
\* stack with d markers decided stands for 2^(n - d) of them.
RECURSIVE NextLevelWork(_, _)
NextLevelWork(nl, k) ==
    IF k > Len(nl.stack) THEN 0
    ELSE 2 ^ (Len(nl.expected_markers) - Cardinality(nl.stack[k][1])
                                       - Cardinality(nl.stack[k][2]))
         + NextLevelWork(nl, k + 1)

\* A bound on the turns a frame of this level stands for: its own
\* expansion, and for each S+ of it one frame of a lower level.
RECURSIVE FrameWork(_)
FrameWork(level) ==
    IF level < 0 THEN 0 ELSE Branches * (1 + FrameWork(level - 1)) + 1

RECURSIVE StackWork(_, _)
StackWork(frames, k) ==
    IF k > Len(frames) THEN 0 ELSE FrameWork(frames[k][1]) + StackWork(frames, k + 1)

\* A bound on the turns of next() still to come.
TurnsLeft ==
    StackWork(stack, 1) + NextLevelWork(curr_next_level, 1) * (1 + FrameWork(it_level - 1))

\* Each turn of next() lowers the bound, which never falls below 0.
TurnLowersBound ==
    (pc = "enumerating" /\ pc' = "enumerating") => (0 <= TurnsLeft' /\ TurnsLeft' < TurnsLeft)

\* A turn of next() goes on or returns None; it does not abort.
TurnReturns == pc = "enumerating" => pc' \in { "enumerating", "done" }

\* Once next() has returned None, another call finds curr_next_level
\* exhausted and the stack empty, and returns None again.
NoneAgain ==
    pc = "done" =>
        /\ stack = << >>
        /\ NextLevelNext(automaton, curr_next_level).ok
        /\ ~NextLevelNext(automaton, curr_next_level).some

\* C29: every frame pushed during an expansion has vertices and a level
\* below the level of the frame being expanded, the expansions make
\* finitely many steps (each turn of next() lowers a bound on the turns
\* left), every turn goes on or returns None, so that every enumeration
\* comes to return None, and from then on next() keeps returning None.
C29_ReturnsNone ==
    /\ [][PushesLowerFrame /\ TurnLowersBound /\ TurnReturns]_vars
    /\ []NoneAgain

----------------------------------------------------------------------------
(* IndexedDag::compile without its clean_level calls                        *)

\* The loop of IndexedDag::compile from curr_level on with the block
\* `if curr_level > 0 { ... jump.clean_level(...) }` left out:
\* [automaton, jump].
RECURSIVE CompileNoClean(_, _, _)
CompileNoClean(dag_automaton, j, level) ==
    IF level >= Len(text) \/ j.abort THEN [ automaton |-> dag_automaton, jump |-> j ]
    ELSE LET cached == get_adj_for_char(dag_automaton, text[level + 1])
             j1 == init_next_level(j, cached.adj_for_char[text[level + 1]],
                                   cached.closure_for_assignations)
         IN  IF j1.abort \/ is_disconnected(j1)
             THEN [ automaton |-> cached, jump |-> j1 ]
             ELSE CompileNoClean(cached, j1, level + 1)

\* The index IndexedDag::compile builds without cleaning.
IndexNoClean ==
    CompileNoClean(automaton,
                   JumpNew(<< get_initial >>, automaton.closure_for_assignations), 0)

\* The Mappings of an enumeration run to its end, and how it ended.
Enumerated(dag_automaton, dag_jump) ==
    LET it == PolicyEnum(dag_automaton, dag_jump, offsets, Len(text))
    IN  [ mappings |-> Range(it.output), pc |-> it.pc ]

\* C30: once the text is indexed, the enumeration over the index built
\* with the clean_level calls returns the same set of Mappings, and ends
\* the same way, as the enumeration over the index built by the same
\* init_next_level calls without any clean_level call.
C30_CleaningTransparent ==
    pc = "indexed" =>
        /\ ~IndexNoClean.jump.abort
        /\ Enumerated(automaton, jump)
               = Enumerated(IndexNoClean.automaton, IndexNoClean.jump)


\* A text is indexed, the cleaning has removed vertices the index built
\* without cleaning still holds, and the enumeration over the cleaned
\* index returns several Mappings.
C30_Witness ==
    /\ pc = "indexed"
    /\ ~IndexNoClean.jump.abort
    /\ IndexNoClean.jump.levelset # jump.levelset
    /\ Enumerated(automaton, jump).pc = "done"
    /\ Cardinality(Enumerated(automaton, jump).mappings) >= 2

====
